---- MODULE Spec2Model ----
(***************************************************************************)
(* GenUI frontend: the Screen component (recency counters, off-screen      *)
(* measurement, fullscreen layout packer), the flat-list graph builder and *)
(* the text/source binding normalizer with the renderer's text resolution. *)
(***************************************************************************)
EXTENDS Integers, Sequences, FiniteSets, TLC

(***************************************************************************)
(* Bounds and value domains                                                *)
(***************************************************************************)
\* largest value the recency tick may reach in the model
MaxTick == 3
MaxRecords == 3
MaxCallDepth == 8

\* surface names of the running Screen
Names == {"a", "b"}
\* surface names the packer is applied to as a pure function
PackNames == {"a", "b", "c"}
\* forest array identities (a forest is compared by reference only)
Forests == {"f", "g"}
\* sizes getBoundingClientRect may report for an off-screen clone
Sizes == { [width |-> 400, height |-> 300],
           [width |-> 400, height |-> 500],
           [width |-> 900, height |-> 300] }
\* sizes the packer is applied to as a pure function
PackSizes == Sizes \cup { [width |-> 400, height |-> 400], [width |-> 400, height |-> 440] }
\* rects of the fullscreen container
ContainerSizes == { [width |-> 0, height |-> 0],
                    [width |-> 420, height |-> 700],
                    [width |-> 840, height |-> 450] }
\* window.innerWidth / window.innerHeight
WindowSizes == { [width |-> 0, height |-> 0],
                 [width |-> 420, height |-> 700] }

minColumnWidth == 420
verticalGap == 16

VARIABLES
  surfaceEntries,   \* Object.entries(surfaces): sequence of [name, forest]
  isFullscreen,     \* useState isFullscreen
  containerSize,    \* useState containerSize
  windowSize,       \* window.innerWidth / innerHeight
  measurements,     \* useState measurements: name -> size (partial)
  measuredForest,   \* history: the forest each measurement was taken of
  prevSurfaces,     \* prevSurfacesRef.current: name -> forest (partial)
  updateOrder,      \* updateOrderRef.current: name -> tick (partial)
  updateTick,       \* updateTickRef.current
  raf,              \* pending requestAnimationFrame callback: its captured entries
  layoutVisible,    \* useMemo layoutVisibleSurfaces of the last render
  orderAtRender,    \* history: updateOrderRef.current as read by that memo run
  bindValue,        \* a component's text / source field as received
  bindData,        \* the data model of the surface
  normText,         \* resolveTextValue(bindValue, bindData)
  normSource,       \* resolveSourceValue(bindValue, bindData)
  displayed,        \* resolveText(normText): the content of the Text element
  components,       \* the flat component list given to buildComponentTreeFromFlat
  idToDefKeys,      \* idToDef: its keys in insertion order
  idToDef,          \* idToDef: id -> definition
  referenced,       \* the set referenced
  rootQueue,        \* rootIds not yet mapped
  stack,            \* the buildNode calls in progress, innermost last
  forest,           \* the nodes returned for the roots so far
  pointerData,      \* the data given to resolveJsonPointer
  pointerText,      \* the pointer given to resolveJsonPointer, its characters
  pointerResult,    \* what resolveJsonPointer returned
  messageStream,    \* the parsed debugComponentsJson: a stream of messages
  debugSurfaces,    \* what buildDebugSurfaces returned
  drawNode,         \* the ComponentNode given to renderComponent
  drawable,         \* what renderComponent returned, or that it raised
  uiState,          \* useState uiState
  events,           \* useState events
  error,            \* useState error
  loading,          \* useState loading
  lastSeqRef,       \* lastSeqRef.current
  isMounted,        \* the effect's isMounted flag
  inFlight,         \* fetches started and not yet settled
  settled,          \* the settled fetch whose then / catch callbacks are due
  polls,            \* how many times loadSession ran
  sessionId,        \* useParams sessionId
  effect,           \* how many times the polling effect has run: the current run
  serverSeq,        \* the server's sessions: session id -> highest event seq
  fetches,          \* the fetches in flight: their effect run, session, response
  status,           \* useWebSpeech: useState status
  speechError,      \* useWebSpeech: useState error
  recognitions,     \* the SpeechRecognition objects that start() created
  recognitionRef,   \* recognitionRef.current: which of them, 0 for none started
  stage             \* which computation the state belongs to, and how far it is

screenVars == << surfaceEntries, isFullscreen, containerSize, windowSize,
                 measurements, measuredForest, prevSurfaces, updateOrder,
                 updateTick, raf, layoutVisible, orderAtRender >>

bindVars == << bindValue, bindData, normText, normSource, displayed >>

buildVars == << components, idToDefKeys, idToDef, referenced, rootQueue,
               stack, forest >>

resolveVars == << pointerData, pointerText, pointerResult >>

streamVars == << messageStream, debugSurfaces >>

renderVars == << drawNode, drawable >>

sessionVars == << uiState, events, error, loading, lastSeqRef, isMounted,
                 inFlight, settled, polls >>

serverVars == << sessionId, effect, serverSeq, fetches >>

speechVars == << status, speechError, recognitions, recognitionRef >>

vars == << screenVars, bindVars, buildVars, resolveVars, streamVars, renderVars,
          sessionVars, serverVars, speechVars, stage >>

\* the variables that the steps of one computation leave alone
notScreen == << bindVars, buildVars, resolveVars, streamVars, renderVars, sessionVars,
  serverVars, speechVars >>
notBind == << screenVars, buildVars, resolveVars, streamVars, renderVars, sessionVars,
  serverVars, speechVars >>
notBuild == << screenVars, bindVars, resolveVars, streamVars, renderVars, sessionVars,
  serverVars, speechVars >>
notResolve == << screenVars, bindVars, buildVars, streamVars, renderVars, sessionVars,
  serverVars, speechVars >>
notStream == << screenVars, bindVars, buildVars, resolveVars, renderVars, sessionVars,
  serverVars, speechVars >>
notRender == << screenVars, bindVars, buildVars, resolveVars, streamVars, sessionVars,
  serverVars, speechVars >>
notSession == << screenVars, bindVars, buildVars, resolveVars, streamVars, renderVars,
                serverVars, speechVars >>
\* what the steps of the session page and its server leave alone
notPage == << screenVars, bindVars, buildVars, resolveVars, streamVars, renderVars,
             speechVars >>
notSpeech == << screenVars, bindVars, buildVars, resolveVars, streamVars, renderVars,
               sessionVars, serverVars >>

(***************************************************************************)
(* Helpers                                                                 *)
(***************************************************************************)
Max2(x, y) == IF x >= y THEN x ELSE y

EmptyMap == [n \in {} |-> 0]

\* partial maps from a subset of names
PartialMaps(names, values) == UNION { [d -> values] : d \in SUBSET names }

NamesOf(entries) == { entries[i].name : i \in 1..Len(entries) }

\* Object.fromEntries(surfaceEntries); keys of an object are distinct
FromEntries(entries) ==
  [n \in NamesOf(entries) |->
     (CHOOSE e \in { entries[i] : i \in 1..Len(entries) } : e.name = n).forest]

\* viewportWidth / viewportHeight: containerSize.width || window.innerWidth
ViewportWidth(cs, ws) == IF cs.width # 0 THEN cs.width ELSE ws.width
ViewportHeight(cs, ws) == IF cs.height # 0 THEN cs.height ELSE ws.height

\* columnCount = Math.max(1, Math.floor(viewportWidth / minColumnWidth))
ColumnCount(vw) == Max2(1, vw \div minColumnWidth)

(***************************************************************************)
(* JavaScript values.  A string is the sequence of its characters, so that *)
(* split, replace and String() are computed and not assumed.               *)
(***************************************************************************)
JUndefined == [t |-> "undefined"]
JNull == [t |-> "null"]
JStr(chars) == [t |-> "string", s |-> chars]
JNum(n) == [t |-> "number", n |-> n]
JBool(b) == [t |-> "boolean", b |-> b]
JObj(fields) == [t |-> "object", o |-> fields]
JArr(items) == [t |-> "array", a |-> items]
\* a built-in function, by the name its source text shows
JFn(name) == [t |-> "function", name |-> name]
\* the outcome of an evaluation that raises a TypeError
Thrown == [t |-> "throw"]

K_constructor == << "c","o","n","s","t","r","u","c","t","o","r" >>
K_toString == << "t","o","S","t","r","i","n","g" >>
K_valueOf == << "v","a","l","u","e","O","f" >>

\* properties every plain object inherits, which the `in` operator also finds
ObjectPrototypeKeys == { K_constructor, K_toString, K_valueOf }

\* the inherited member: Object.prototype.constructor is the function Object
InheritedProperty(key) ==
  IF key = K_constructor THEN JFn(<< "O","b","j","e","c","t" >>) ELSE JFn(key)

IsNullish(v) == v.t \in {"undefined", "null"}

\* !value
Falsy(v) ==
  \/ IsNullish(v)
  \/ (v.t = "string" /\ v.s = << >>)
  \/ (v.t = "number" /\ v.n = 0)
  \/ (v.t = "boolean" /\ ~v.b)

\* typeof value === 'object' (null included)
TypeofObject(v) == v.t \in {"object", "array", "null"}

\* key in obj, for a plain object
HasProperty(obj, key) == key \in DOMAIN obj.o \/ key \in ObjectPrototypeKeys

\* obj[key], for a plain object
GetProperty(obj, key) ==
  IF key \in DOMAIN obj.o THEN obj.o[key]
  ELSE IF key \in ObjectPrototypeKeys THEN InheritedProperty(key)
  ELSE JUndefined

Digit(d) == << "0","1","2","3","4","5","6","7","8","9" >>[d + 1]

RECURSIVE NatToChars(_)
NatToChars(n) ==
  IF n < 10 THEN << Digit(n) >> ELSE NatToChars(n \div 10) \o << Digit(n % 10) >>

RECURSIVE JoinStrings(_, _)
\* String(value) for the values of the model
RECURSIVE StringOf(_)
StringOf(v) ==
  CASE v.t = "string"    -> v.s
    [] v.t = "number"    -> IF v.n < 0 THEN << "-" >> \o NatToChars(-v.n) ELSE NatToChars(v.n)
    [] v.t = "boolean"   -> IF v.b THEN << "t","r","u","e" >> ELSE << "f","a","l","s","e" >>
    [] v.t = "null"      -> << "n","u","l","l" >>
    [] v.t = "undefined" -> << "u","n","d","e","f","i","n","e","d" >>
    [] v.t = "object"    -> << "[","o","b","j","e","c","t"," ","O","b","j","e","c","t","]" >>
    [] v.t = "array"     -> JoinStrings(v.a, 1)
    [] v.t = "function"  -> << "f","u","n","c","t","i","o","n"," " >> \o v.name
                            \o << "(",")"," ","{"," ","[","n","a","t","i","v","e"," ",
                                  "c","o","d","e","]"," ","}" >>

\* Array.prototype.join(','): null and undefined elements give the empty string
JoinStrings(items, i) ==
  IF i > Len(items) THEN << >>
  ELSE (IF IsNullish(items[i]) THEN << >> ELSE StringOf(items[i]))
       \o (IF i < Len(items) THEN << "," >> ELSE << >>)
       \o JoinStrings(items, i + 1)

(***************************************************************************)
(* Pointer Resolver (resolveJsonPointer)                                   *)
(***************************************************************************)
\* str.replace(/<a><b>/g, c): every non-overlapping occurrence, left to right
RECURSIVE ReplaceAll(_, _, _, _)
ReplaceAll(chars, a, b, c) ==
  IF Len(chars) < 2 THEN chars
  ELSE IF chars[1] = a /\ chars[2] = b
       THEN << c >> \o ReplaceAll(SubSeq(chars, 3, Len(chars)), a, b, c)
       ELSE << chars[1] >> \o ReplaceAll(Tail(chars), a, b, c)

unescapeJsonPointerToken(token) ==
  ReplaceAll(ReplaceAll(token, "~", "1", "/"), "~", "0", "~")

\* str.split('/'): the last element of acc is the token being read
RECURSIVE SplitFrom(_, _, _)
SplitFrom(chars, i, acc) ==
  IF i > Len(chars) THEN acc
  ELSE IF chars[i] = "/"
       THEN SplitFrom(chars, i + 1, Append(acc, << >>))
       ELSE SplitFrom(chars, i + 1,
              [acc EXCEPT ![Len(acc)] = Append(acc[Len(acc)], chars[i])])

SplitSlash(chars) == SplitFrom(chars, 1, << << >> >>)

DigitChars == { Digit(d) : d \in 0..9 }
DigitValue(ch) == CHOOSE d \in 0..9 : Digit(d) = ch

RECURSIVE DigitsValue(_, _)
DigitsValue(chars, acc) ==
  IF chars = << >> THEN acc
  ELSE DigitsValue(Tail(chars), 10 * acc + DigitValue(Head(chars)))

\* a Number: NaN, an infinity (inf = 1 or -1), or the finite value num / den
NaN == [nan |-> TRUE, inf |-> 0, num |-> 0, den |-> 1]
Infinite(sign) == [nan |-> FALSE, inf |-> sign, num |-> 0, den |-> 1]
Finite(num, den) == [nan |-> FALSE, inf |-> 0, num |-> num, den |-> den]

\* idx < 0
IsNegative(x) == x.inf = -1 \/ (x.inf = 0 /\ x.num < 0)
\* idx >= n
IsAtLeast(x, n) == x.inf = 1 \/ (x.inf = 0 /\ x.num >= n * x.den)
IsInteger(x) == x.inf = 0 /\ x.num % x.den = 0

WhiteSpace == { " ", "\t", "\n" }

RECURSIVE TrimLeft(_)
TrimLeft(chars) ==
  IF chars # << >> /\ Head(chars) \in WhiteSpace THEN TrimLeft(Tail(chars)) ELSE chars

RECURSIVE TrimRight(_)
TrimRight(chars) ==
  IF chars # << >> /\ chars[Len(chars)] \in WhiteSpace
  THEN TrimRight(SubSeq(chars, 1, Len(chars) - 1)) ELSE chars

RadixDigits ==
  << "0","1","2","3","4","5","6","7","8","9","a","b","c","d","e","f" >>
UpperHex == << "A","B","C","D","E","F" >>

\* the value of the digit in the radix, or -1
RadixDigit(ch, radix) ==
  IF \E d \in 1..radix : RadixDigits[d] = ch
  THEN (CHOOSE d \in 1..radix : RadixDigits[d] = ch) - 1
  ELSE IF radix = 16 /\ \E d \in 1..6 : UpperHex[d] = ch
  THEN (CHOOSE d \in 1..6 : UpperHex[d] = ch) + 9
  ELSE -1

RECURSIVE RadixValue(_, _, _)
RadixValue(chars, radix, acc) ==
  IF chars = << >> THEN acc
  ELSE RadixValue(Tail(chars), radix, radix * acc + RadixDigit(Head(chars), radix))

\* 0x, 0o and 0b literals: the radix of the prefix, or 0
PrefixRadix(chars) ==
  IF Len(chars) < 3 \/ chars[1] # "0" THEN 0
  ELSE IF chars[2] \in {"x", "X"} THEN 16
  ELSE IF chars[2] \in {"o", "O"} THEN 8
  ELSE IF chars[2] \in {"b", "B"} THEN 2
  ELSE 0

IsDigits(chars) == \A i \in 1..Len(chars) : chars[i] \in DigitChars

\* the first position of a character of the set, or 0
FirstOf(chars, set) ==
  IF \E i \in 1..Len(chars) : chars[i] \in set
  THEN CHOOSE i \in 1..Len(chars) :
         chars[i] \in set /\ \A h \in 1..(i - 1) : chars[h] \notin set
  ELSE 0

RECURSIVE Pow10(_)
Pow10(n) == IF n = 0 THEN 1 ELSE 10 * Pow10(n - 1)

\* an unsigned decimal literal: digits, an optional fraction, an optional exponent
DecimalOf(body, sign) ==
  LET ePos == FirstOf(body, {"e", "E"})
      mant == IF ePos = 0 THEN body ELSE SubSeq(body, 1, ePos - 1)
      expo == IF ePos = 0 THEN << >> ELSE SubSeq(body, ePos + 1, Len(body))
      expSigned == expo # << >> /\ expo[1] \in {"+", "-"}
      expDigits == IF expSigned THEN Tail(expo) ELSE expo
      dot == FirstOf(mant, {"."})
      intPart == IF dot = 0 THEN mant ELSE SubSeq(mant, 1, dot - 1)
      fracPart == IF dot = 0 THEN << >> ELSE SubSeq(mant, dot + 1, Len(mant))
      valid == /\ IsDigits(intPart) /\ IsDigits(fracPart)
               /\ (intPart # << >> \/ fracPart # << >>)
               /\ (ePos = 0 \/ (expDigits # << >> /\ IsDigits(expDigits)))
  IN IF ~valid THEN NaN
     ELSE LET m == DigitsValue(intPart \o fracPart, 0)
              ex == (IF expSigned /\ expo[1] = "-" THEN 0 - DigitsValue(expDigits, 0)
                     ELSE DigitsValue(expDigits, 0)) - Len(fracPart)
          IN IF ex >= 0 THEN Finite(sign * m * Pow10(ex), 1)
             ELSE Finite(sign * m, Pow10(0 - ex))

s_Infinity == << "I","n","f","i","n","i","t","y" >>

\* Number(token): StringToNumber
NumberOf(token) ==
  LET t == TrimRight(TrimLeft(token))
      radix == PrefixRadix(t)
  IN IF t = << >> THEN Finite(0, 1)
     ELSE IF radix # 0
     THEN IF \A i \in 3..Len(t) : RadixDigit(t[i], radix) >= 0
          THEN Finite(RadixValue(SubSeq(t, 3, Len(t)), radix, 0), 1)
          ELSE NaN
     ELSE LET signed == t[1] \in {"+", "-"}
              sign == IF t[1] = "-" THEN -1 ELSE 1
              body == IF signed THEN Tail(t) ELSE t
          IN IF body = s_Infinity THEN Infinite(sign) ELSE DecimalOf(body, sign)

\* the for loop over the tokens
RECURSIVE WalkTokens(_, _, _)
WalkTokens(tokens, i, current) ==
  IF i > Len(tokens) THEN current
  ELSE LET token == unescapeJsonPointerToken(tokens[i])
       IN IF current.t = "array"
          THEN LET idx == NumberOf(token)
               IN IF idx.nan \/ IsNegative(idx) \/ IsAtLeast(idx, Len(current.a))
                  THEN JNull
                  ELSE IF ~IsInteger(idx)
                  THEN WalkTokens(tokens, i + 1, JUndefined)  \* no such element
                  ELSE WalkTokens(tokens, i + 1, current.a[(idx.num \div idx.den) + 1])
          ELSE IF current.t = "object"
          THEN IF ~HasProperty(current, token) THEN JNull
               ELSE WalkTokens(tokens, i + 1, GetProperty(current, token))
          ELSE JNull

\* pointer is a JavaScript value: a string by the schema, anything at run time
resolveJsonPointer(data, pointer) ==
  IF Falsy(data) \/ ~TypeofObject(data) \/ IsNullish(pointer) THEN JNull
  ELSE IF pointer = JStr(<< "/" >>) THEN data
  ELSE IF pointer.t # "string" THEN Thrown  \* pointer.startsWith is not a function
  ELSE IF pointer.s = << >> \/ pointer.s[1] # "/" THEN JNull
  ELSE WalkTokens(SplitSlash(Tail(pointer.s)), 1, data)

(***************************************************************************)
(* Binding Normalizer (resolveTextValue, resolveSourceValue) and the       *)
(* renderer's resolveText                                                  *)
(***************************************************************************)
K_literal == << "l","i","t","e","r","a","l" >>
K_literalString == << "l","i","t","e","r","a","l","S","t","r","i","n","g" >>
K_path == << "p","a","t","h" >>
K_url == << "u","r","l" >>

\* the normalizer consulting the path before the literal
resolveTextValue_pathFirst(value, dataModel) ==
  IF IsNullish(value) THEN value
  ELSE IF value.t # "object" THEN JObj([k \in {K_literal} |-> JStr(StringOf(value))])
  ELSE IF ~HasProperty(value, K_path) THEN value
  ELSE LET resolved == resolveJsonPointer(dataModel, GetProperty(value, K_path))
       IN IF resolved = Thrown THEN Thrown
          ELSE IF IsNullish(resolved) THEN value
          ELSE JObj([k \in {K_literal} |-> JStr(StringOf(resolved))])

\* the normalizer without its test for an unresolved pointer
resolveTextValue_noMissCheck(value, dataModel) ==
  IF IsNullish(value) THEN value
  ELSE IF value.t # "object" THEN JObj([k \in {K_literal} |-> JStr(StringOf(value))])
  ELSE IF HasProperty(value, K_literalString)
       THEN JObj([k \in {K_literal} |-> GetProperty(value, K_literalString)])
  ELSE IF HasProperty(value, K_literal) \/ ~HasProperty(value, K_path) THEN value
  ELSE LET resolved == resolveJsonPointer(dataModel, GetProperty(value, K_path))
       IN IF resolved = Thrown THEN Thrown
          ELSE JObj([k \in {K_literal} |-> JStr(StringOf(resolved))])

resolveTextValue(value, dataModel) ==
  IF IsNullish(value) THEN value
  ELSE IF value.t # "object" THEN JObj([k \in {K_literal} |-> JStr(StringOf(value))])
  ELSE IF HasProperty(value, K_literalString)
       THEN JObj([k \in {K_literal} |-> GetProperty(value, K_literalString)])
  ELSE IF HasProperty(value, K_literal) \/ ~HasProperty(value, K_path) THEN value
  ELSE LET resolved == resolveJsonPointer(dataModel, GetProperty(value, K_path))
       IN IF resolved = Thrown THEN Thrown
          ELSE IF IsNullish(resolved) THEN value
          ELSE JObj([k \in {K_literal} |-> JStr(StringOf(resolved))])

resolveSourceValue(value, dataModel) ==
  IF IsNullish(value) THEN value
  ELSE IF value.t # "object" THEN JObj([k \in {K_url} |-> JStr(StringOf(value))])
  ELSE IF HasProperty(value, K_url) \/ ~HasProperty(value, K_path) THEN value
  ELSE LET resolved == resolveJsonPointer(dataModel, GetProperty(value, K_path))
       IN IF resolved = Thrown THEN Thrown
          ELSE IF IsNullish(resolved) THEN value
          ELSE JObj([k \in {K_url} |-> JStr(StringOf(resolved))])

\* registry.tsx resolveText: the content a Text node shows
resolveText(value) ==
  IF Falsy(value) THEN JStr(<< >>)
  ELSE IF value.t \in {"string", "number"} THEN JStr(StringOf(value))
  ELSE IF value.t = "boolean" THEN Thrown  \* `in` applied to a primitive
  ELSE IF value.t # "object" THEN JStr(<< >>)
  ELSE IF HasProperty(value, K_literal) THEN GetProperty(value, K_literal)
  ELSE IF HasProperty(value, K_literalString) THEN GetProperty(value, K_literalString)
  ELSE IF HasProperty(value, K_path) THEN GetProperty(value, K_path)
  ELSE JStr(<< >>)

(***************************************************************************)
(* layoutVisibleSurfaces                                                   *)
(***************************************************************************)
\* the filter callback without its width test
IsEligible_noWidth(name, meas, vw, vh) ==
  /\ name \in DOMAIN meas
  /\ ~(meas[name].height > vh)

\* the filter callback of `eligible`
IsEligible(name, meas, vw, vh) ==
  /\ name \in DOMAIN meas
  /\ ~(meas[name].width > vw)
  /\ ~(meas[name].height > vh)

Eligible(entries, meas, vw, vh) ==
  SelectSeq(entries, LAMBDA e : IsEligible(e.name, meas, vw, vh))

\* updateOrderRef.current[name] ?? 0
OrderKey(order, name) == IF name \in DOMAIN order THEN order[name] ELSE 0

\* Array.prototype.sort is stable: an element goes after every element already
\* placed whose key is not greater
RECURSIVE InsertByUpdate(_, _, _)
InsertByUpdate(sorted, e, order) ==
  IF sorted = << >> THEN << e >>
  ELSE IF OrderKey(order, Head(sorted).name) - OrderKey(order, e.name) <= 0
       THEN << Head(sorted) >> \o InsertByUpdate(Tail(sorted), e, order)
       ELSE << e >> \o sorted

RECURSIVE SortFrom(_, _, _, _)
SortFrom(entries, i, acc, order) ==
  IF i > Len(entries) THEN acc
  ELSE SortFrom(entries, i + 1, InsertByUpdate(acc, entries[i], order), order)

OrderedByUpdate(entries, order) == SortFrom(entries, 1, << >>, order)

\* heights.indexOf(Math.min(...heights)): the first column of minimal height
MinColumn(heights) ==
  CHOOSE t \in 1..Len(heights) :
    /\ \A u \in 1..Len(heights) : heights[t] <= heights[u]
    /\ \A u \in 1..(t - 1) : heights[u] > heights[t]

RECURSIVE FitsFrom(_, _, _, _, _)
FitsFrom(entries, i, heights, meas, vh) ==
  IF i > Len(entries) THEN TRUE
  ELSE IF entries[i].name \notin DOMAIN meas THEN FALSE
  ELSE LET target == MinColumn(heights)
           nextHeight == heights[target] + meas[entries[i].name].height + verticalGap
       IN IF nextHeight > vh THEN FALSE
          ELSE FitsFrom(entries, i + 1, [heights EXCEPT ![target] = nextHeight], meas, vh)

\* const fits = (entries) => ...
Fits(entries, meas, columnCount, vh) ==
  FitsFrom(entries, 1, [c \in 1..columnCount |-> 0], meas, vh)

\* the shedding loop dropping the newest member (pop) instead of the oldest
RECURSIVE ShiftUntilFits_popNewest(_, _, _, _)
ShiftUntilFits_popNewest(visible, meas, columnCount, vh) ==
  IF Len(visible) > 0 /\ ~Fits(visible, meas, columnCount, vh)
  THEN ShiftUntilFits_popNewest(SubSeq(visible, 1, Len(visible) - 1), meas, columnCount, vh)
  ELSE visible

\* while (visible.length > 0 && !fits(visible)) visible.shift()
RECURSIVE ShiftUntilFits(_, _, _, _)
ShiftUntilFits(visible, meas, columnCount, vh) ==
  IF Len(visible) > 0 /\ ~Fits(visible, meas, columnCount, vh)
  THEN ShiftUntilFits(Tail(visible), meas, columnCount, vh)
  ELSE visible

\* for (const entry of orderedByUpdate) { push; shift while not fits; pop if not fits }
RECURSIVE PackFrom(_, _, _, _, _, _)
PackFrom(ordered, i, visible, meas, columnCount, vh) ==
  IF i > Len(ordered) THEN visible
  ELSE LET pushed  == Append(visible, ordered[i])
           shifted == ShiftUntilFits(pushed, meas, columnCount, vh)
           popped  == IF ~Fits(shifted, meas, columnCount, vh)
                      THEN SubSeq(shifted, 1, Len(shifted) - 1)
                      ELSE shifted
       IN PackFrom(ordered, i + 1, popped, meas, columnCount, vh)

\* the memo without its early return outside fullscreen mode
LayoutVisibleSurfaces_alwaysPacks(entries, fs, meas, vw, vh, order) ==
  IF vw = 0 \/ vh = 0 THEN << >>
  ELSE PackFrom(OrderedByUpdate(Eligible(entries, meas, vw, vh), order), 1, << >>,
                meas, ColumnCount(vw), vh)

LayoutVisibleSurfaces(entries, fs, meas, vw, vh, order) ==
  IF ~fs THEN entries
  ELSE IF vw = 0 \/ vh = 0 THEN << >>
  ELSE PackFrom(OrderedByUpdate(Eligible(entries, meas, vw, vh), order), 1, << >>,
                meas, ColumnCount(vw), vh)

(***************************************************************************)
(* Recency effect                                                          *)
(***************************************************************************)
\* the loop bumping every entry, whether or not its forest changed
RECURSIVE BumpFrom_always(_, _, _, _)
BumpFrom_always(entries, i, prev, st) ==
  IF i > Len(entries) THEN st
  ELSE LET name == entries[i].name
       IN BumpFrom_always(entries, i + 1, prev,
            [tick  |-> st.tick + 1,
             order |-> [n \in DOMAIN st.order \cup {name} |->
                          IF n = name THEN st.tick + 1 ELSE st.order[n]]])

\* surfaceEntries.forEach: bump the tick for a new name or a changed forest
RECURSIVE BumpFrom(_, _, _, _)
BumpFrom(entries, i, prev, st) ==
  IF i > Len(entries) THEN st
  ELSE LET name == entries[i].name
           changed == name \notin DOMAIN prev \/ prev[name] # entries[i].forest
       IN IF changed
          THEN BumpFrom(entries, i + 1, prev,
                 [tick  |-> st.tick + 1,
                  order |-> [n \in DOMAIN st.order \cup {name} |->
                               IF n = name THEN st.tick + 1 ELSE st.order[n]]])
          ELSE BumpFrom(entries, i + 1, prev, st)

\* Object.keys(prevSurfacesRef.current).forEach: delete the removed names
DeleteRemoved(order, prev, entries) ==
  [n \in DOMAIN order \ (DOMAIN prev \ NamesOf(entries)) |-> order[n]]

RecencyEffect(entries, prev, order, tick) ==
  LET st == BumpFrom(entries, 1, prev, [tick |-> tick, order |-> order])
  IN [tick  |-> st.tick,
      order |-> DeleteRemoved(st.order, prev, entries),
      prev  |-> FromEntries(entries)]

\* the variables of a computation that is not running
BindIdle ==
  /\ bindValue = JUndefined /\ bindData = JUndefined /\ normText = JUndefined
  /\ normSource = JUndefined /\ displayed = JUndefined

BuildIdle ==
  /\ components = << >> /\ idToDefKeys = << >> /\ idToDef = EmptyMap
  /\ referenced = {} /\ rootQueue = << >> /\ stack = << >> /\ forest = << >>

ResolveIdle ==
  /\ pointerData = JUndefined /\ pointerText = << >> /\ pointerResult = JUndefined

ScreenIdle ==
  /\ surfaceEntries = << >> /\ isFullscreen = FALSE
  /\ containerSize = [width |-> 0, height |-> 0]
  /\ windowSize = [width |-> 0, height |-> 0]
  /\ measurements = EmptyMap /\ measuredForest = EmptyMap
  /\ prevSurfaces = EmptyMap /\ updateOrder = EmptyMap /\ updateTick = 0
  /\ raf = << "none" >> /\ layoutVisible = << >> /\ orderAtRender = EmptyMap

StreamIdle ==
  /\ messageStream = << >> /\ debugSurfaces = [isNull |-> TRUE, surfaces |-> << >>]

\* a drawable: an element, the fallback, or the call raising
Drawable(outcome, tag, text, parts) ==
  [outcome |-> outcome, tag |-> tag, text |-> text, parts |-> parts]

NoDrawable == Drawable("none", "", << >>, << >>)

\* a ComponentNode with the props the renderers read
Node(type, source, name, text, children) ==
  [type |-> type, source |-> source, name |-> name, text |-> text,
   children |-> children]

NoNode == Node("", JUndefined, JUndefined, JUndefined, << >>)

RenderIdle == drawNode = NoNode /\ drawable = NoDrawable

\* useState<UIState | null>(null)
NoUiState == [isNull |-> TRUE, surfaces |-> << >>]

\* no fetch has settled
NoResponse == [kind |-> "none", ui |-> NoUiState, seqs |-> << >>]

SessionIdle ==
  /\ uiState = NoUiState /\ events = << >> /\ error = "" /\ loading = TRUE
  /\ lastSeqRef = -1 /\ isMounted = FALSE /\ inFlight = 0
  /\ settled = NoResponse /\ polls = 0

ServerIdle ==
  /\ sessionId = "" /\ effect = 0 /\ serverSeq = EmptyMap /\ fetches = << >>

SpeechIdle ==
  /\ status = "idle" /\ speechError = "" /\ recognitions = << >> /\ recognitionRef = 0

\* every computation but the named one is not running
IdleExcept(group) ==
  /\ IF group = "screen" THEN TRUE ELSE ScreenIdle
  /\ IF group = "bind" THEN TRUE ELSE BindIdle
  /\ IF group = "build" THEN TRUE ELSE BuildIdle
  /\ IF group = "resolve" THEN TRUE ELSE ResolveIdle
  /\ IF group = "stream" THEN TRUE ELSE StreamIdle
  /\ IF group = "render" THEN TRUE ELSE RenderIdle
  /\ IF group \in {"session", "server"} THEN TRUE ELSE SessionIdle
  /\ IF group = "server" THEN TRUE ELSE ServerIdle
  /\ IF group = "speech" THEN TRUE ELSE SpeechIdle

(***************************************************************************)
(* The Screen component: renders, effects and callbacks                    *)
(***************************************************************************)
\* the surfaces objects the parent may pass: distinct keys, any key order
EntrySeqs(names, forests) ==
  { s \in UNION { [1..k -> [name : names, forest : forests]] : k \in 0..Cardinality(names) } :
      \A i, j \in 1..Len(s) : i # j => s[i].name # s[j].name }

NoRaf == << "none" >>
PendingRaf(entries) == << "pending", entries >>

\* mount: first render outside fullscreen, then the effects of that render
InitScreen ==
  /\ stage = "screen"
  /\ IdleExcept("screen")
  /\ surfaceEntries \in EntrySeqs(Names, Forests)
  /\ Len(surfaceEntries) <= MaxTick
  /\ windowSize \in WindowSizes
  /\ isFullscreen = FALSE
  /\ containerSize = [width |-> 0, height |-> 0]
  /\ measurements = EmptyMap
  /\ measuredForest = EmptyMap
  /\ LET r == RecencyEffect(surfaceEntries, EmptyMap, EmptyMap, 0)
     IN /\ prevSurfaces = r.prev
        /\ updateOrder = r.order
        /\ updateTick = r.tick
  /\ raf = NoRaf
  /\ layoutVisible = surfaceEntries
  /\ orderAtRender = EmptyMap

\* the parent passes a new surfaces object: render, then the recency effect and
\* the measurement effect
SetSurfaces(entries) ==
  LET r == RecencyEffect(entries, prevSurfaces, updateOrder, updateTick)
  IN /\ r.tick <= MaxTick
     /\ surfaceEntries' = entries
     /\ layoutVisible' = LayoutVisibleSurfaces(entries, isFullscreen, measurements,
                            ViewportWidth(containerSize, windowSize),
                            ViewportHeight(containerSize, windowSize), updateOrder)
     /\ orderAtRender' = updateOrder
     /\ prevSurfaces' = r.prev
     /\ updateOrder' = r.order
     /\ updateTick' = r.tick
     /\ IF ~isFullscreen
        THEN /\ measurements' = EmptyMap
             /\ measuredForest' = EmptyMap
             /\ raf' = NoRaf
        ELSE /\ UNCHANGED << measurements, measuredForest >>
             /\ raf' = PendingRaf(entries)
     /\ UNCHANGED << isFullscreen, containerSize, windowSize, stage, notScreen >>

\* fullscreenchange with a fullscreen element: render, the size effect's
\* updateSize() and the measurement effect
EnterFullscreen(rect) ==
  /\ ~isFullscreen
  /\ isFullscreen' = TRUE
  /\ containerSize' = rect
  /\ layoutVisible' = LayoutVisibleSurfaces(surfaceEntries, TRUE, measurements,
                         ViewportWidth(rect, windowSize),
                         ViewportHeight(rect, windowSize), updateOrder)
  /\ orderAtRender' = updateOrder
  /\ raf' = PendingRaf(surfaceEntries)
  /\ UNCHANGED << surfaceEntries, windowSize, measurements, measuredForest,
                  prevSurfaces, updateOrder, updateTick, stage, notScreen >>

\* fullscreenchange without a fullscreen element: the measurement effect's
\* cleanup cancels the frame and the effect clears the measurements
ExitFullscreen ==
  /\ isFullscreen
  /\ isFullscreen' = FALSE
  /\ measurements' = EmptyMap
  /\ measuredForest' = EmptyMap
  /\ raf' = NoRaf
  /\ layoutVisible' = LayoutVisibleSurfaces(surfaceEntries, FALSE, EmptyMap,
                         ViewportWidth(containerSize, windowSize),
                         ViewportHeight(containerSize, windowSize), updateOrder)
  /\ orderAtRender' = updateOrder
  /\ UNCHANGED << surfaceEntries, containerSize, windowSize, prevSurfaces,
                  updateOrder, updateTick, stage, notScreen >>

\* ResizeObserver callback: setContainerSize, render, measurement effect again
Resize(rect) ==
  /\ isFullscreen
  /\ containerSize' = rect
  /\ layoutVisible' = LayoutVisibleSurfaces(surfaceEntries, TRUE, measurements,
                         ViewportWidth(rect, windowSize),
                         ViewportHeight(rect, windowSize), updateOrder)
  /\ orderAtRender' = updateOrder
  /\ raf' = PendingRaf(surfaceEntries)
  /\ UNCHANGED << surfaceEntries, isFullscreen, windowSize, measurements,
                  measuredForest, prevSurfaces, updateOrder, updateTick, stage, notScreen >>

\* an animation frame whose setMeasurements is followed by no render
MeasureFrame_noRender(rects) ==
  /\ raf[1] = "pending"
  /\ DOMAIN rects = NamesOf(raf[2])
  /\ measurements' = [n \in NamesOf(raf[2]) |-> rects[n]]
  /\ measuredForest' = [n \in NamesOf(raf[2]) |-> FromEntries(surfaceEntries)[n]]
  /\ raf' = NoRaf
  /\ UNCHANGED << surfaceEntries, isFullscreen, containerSize, windowSize,
                  prevSurfaces, updateOrder, updateTick, layoutVisible,
                  orderAtRender, stage, notScreen >>

\* the animation frame: measure every captured entry's off-screen clone,
\* setMeasurements(next), render
MeasureFrame(rects) ==
  /\ raf[1] = "pending"
  /\ DOMAIN rects = NamesOf(raf[2])
  /\ LET captured == raf[2]
         next == [n \in NamesOf(captured) |-> rects[n]]
     IN /\ measurements' = next
        /\ measuredForest' = [n \in NamesOf(captured) |-> FromEntries(surfaceEntries)[n]]
        /\ layoutVisible' = LayoutVisibleSurfaces(surfaceEntries, isFullscreen, next,
                               ViewportWidth(containerSize, windowSize),
                               ViewportHeight(containerSize, windowSize), updateOrder)
  /\ orderAtRender' = updateOrder
  /\ raf' = NoRaf
  /\ UNCHANGED << surfaceEntries, isFullscreen, containerSize, windowSize,
                  prevSurfaces, updateOrder, updateTick, stage, notScreen >>

Init == InitScreen

Next ==
  \/ \E entries \in EntrySeqs(Names, Forests) : SetSurfaces(entries)
  \/ \E rect \in ContainerSizes : EnterFullscreen(rect)
  \/ ExitFullscreen
  \/ \E rect \in ContainerSizes : Resize(rect)
  \/ \E rects \in PartialMaps(Names, Sizes) : MeasureFrame(rects)

Spec == Init /\ [][Next]_vars

\* the Screen with one fullscreen rect per column count and two clone sizes
SettleRects == { [width |-> 420, height |-> 700], [width |-> 840, height |-> 450] }
SettleSizes == { [width |-> 400, height |-> 300], [width |-> 400, height |-> 500] }

NextSettle ==
  \/ \E entries \in EntrySeqs(Names, Forests) : SetSurfaces(entries)
  \/ EnterFullscreen([width |-> 420, height |-> 700])
  \/ ExitFullscreen
  \/ \E rect \in SettleRects : Resize(rect)
  \/ \E rects \in PartialMaps(Names, SettleSizes) : MeasureFrame(rects)

\* a pending animation frame leaves the pending state: its callback runs
\* (MeasureFrame) or the effect's cleanup cancels it
FrameRuns == raf[1] = "pending" /\ raf' = NoRaf

\* a requested animation frame that is not cancelled is run by the browser
SpecScreenFair == Init /\ [][NextSettle]_vars /\ WF_raf(FrameRuns)

(***************************************************************************)
(* The packer as a pure function of entries, measurements, viewport and    *)
(* recency counters                                                        *)
(***************************************************************************)
InitPack ==
  /\ stage = "input"
  /\ IdleExcept("screen")
  /\ surfaceEntries \in EntrySeqs(PackNames, {"f"})
  /\ isFullscreen = TRUE
  /\ containerSize \in ContainerSizes
  /\ windowSize = [width |-> 0, height |-> 0]
  /\ measurements \in PartialMaps(NamesOf(surfaceEntries), PackSizes)
  /\ measuredForest = [n \in DOMAIN measurements |-> "f"]
  /\ prevSurfaces = FromEntries(surfaceEntries)
  /\ updateOrder \in { o \in PartialMaps(NamesOf(surfaceEntries), 1..Cardinality(PackNames)) :
                         \A m, n \in DOMAIN o : m # n => o[m] # o[n] }
  /\ updateTick = Cardinality(PackNames)
  /\ raf = NoRaf
  /\ layoutVisible = << >>
  /\ orderAtRender = EmptyMap

Pack ==
  /\ stage = "input"
  /\ stage' = "packed"
  /\ layoutVisible' = LayoutVisibleSurfaces(surfaceEntries, isFullscreen, measurements,
                         ViewportWidth(containerSize, windowSize),
                         ViewportHeight(containerSize, windowSize), updateOrder)
  /\ orderAtRender' = updateOrder
  /\ UNCHANGED << surfaceEntries, isFullscreen, containerSize, windowSize,
                  measurements, measuredForest, prevSurfaces, updateOrder,
                  updateTick, raf, notScreen >>

NextPack == Pack

SpecPack == InitPack /\ [][NextPack]_vars

(***************************************************************************)
(* The normalizer applied to one binding and the renderer to its result    *)
(***************************************************************************)
s_hi == << "h","i" >>
s_yo == << "y","o" >>
s_u == << "u" >>
K_a == << "a" >>
K_b == << "b" >>
K_c == << "c" >>
K_x == << "x" >>
K_st == << "s","/","t" >>

\* the string pointers of the model
P_root == << "/" >>
P_x == << "/","x" >>
P_ab0 == << "/","a","/","b","/","0" >>
P_ab0c == << "/","a","/","b","/","0","/","c" >>
P_ax == << "/","a","/","x" >>
P_ab5 == << "/","a","/","b","/","5" >>
P_xy == << "/","x","/","y" >>
P_st == << "/","s","~","1","t" >>
P_ctor == << "/" >> \o K_constructor
P_noSlash == << "x" >>
P_empty == << >>

K_n == << "n" >>
K_f == << "f" >>
K_z == << "z" >>
K_e == << "e" >>
K_l == << "l" >>
P_n == << "/","n" >>
P_f == << "/","f" >>
P_z == << "/","z" >>
P_e == << "/","e" >>
P_l == << "/","l" >>

PointerStrings ==
  { P_root, P_x, P_ab0, P_ab0c, P_ax, P_ab5, P_xy, P_st, P_ctor, P_noSlash, P_empty,
    P_n, P_f, P_z, P_e, P_l }

\* { a: { b: [ { c: 1 } ] }, x: "yo", "s/t": "hi" }
DM_doc ==
  JObj([k \in {K_a, K_x, K_st} |->
     IF k = K_a THEN JObj([j \in {K_b} |-> JArr(<< JObj([h \in {K_c} |-> JNum(1)]) >>)])
     ELSE IF k = K_x THEN JStr(s_yo)
     ELSE JStr(s_hi)])
\* {}
DM_empty == JObj([k \in {} |-> JNull])

\* { n: 0, f: false, z: null, e: "", l: [1, "yo"] }
DM_kinds ==
  JObj([k \in {K_n, K_f, K_z, K_e, K_l} |->
     IF k = K_n THEN JNum(0)
     ELSE IF k = K_f THEN JBool(FALSE)
     ELSE IF k = K_z THEN JNull
     ELSE IF k = K_e THEN JStr(<< >>)
     ELSE JArr(<< JNum(1), JStr(s_yo) >>)])

DataModels == { JNull, JUndefined, DM_empty, DM_doc, DM_kinds }

\* an object with the given fields: a literal, a literalString, a path, a url
Binding(fields) == JObj(fields)

\* the values a paths field takes: a string by the schema, any value at run time
PathValues == { JStr(p) : p \in PointerStrings } \cup { JNum(5) }

BindingValues ==
  { JUndefined, JNull, JStr(s_hi), JStr(<< >>), JNum(5), Binding([k \in {} |-> JNull]),
    Binding([k \in {K_literal} |-> JStr(s_hi)]),
    Binding([k \in {K_literalString} |-> JStr(s_hi)]),
    Binding([k \in {K_url} |-> JStr(s_u)]) }
  \cup { Binding([k \in {K_path} |-> p]) : p \in PathValues }
  \cup { Binding([k \in {K_literal, K_path} |-> IF k = K_path THEN p ELSE JStr(s_hi)]) :
           p \in PathValues }
  \cup { Binding([k \in {K_literal, K_path} |-> IF k = K_path THEN p ELSE JStr(<< >>)]) :
           p \in PathValues }
  \cup { Binding([k \in {K_url, K_path} |-> IF k = K_path THEN p ELSE JStr(s_u)]) :
           p \in PathValues }

InitBind ==
  /\ stage = "binding"
  /\ IdleExcept("bind")
  /\ bindValue \in BindingValues
  /\ bindData \in DataModels
  /\ normText = JUndefined
  /\ normSource = JUndefined
  /\ displayed = JUndefined

\* buildNode resolving a Text's text and an Image's source against the data model
Normalize ==
  /\ stage = "binding"
  /\ stage' = "normalized"
  /\ normText' = resolveTextValue(bindValue, bindData)
  /\ normSource' = resolveSourceValue(bindValue, bindData)
  /\ UNCHANGED << bindValue, bindData, displayed, notBind >>

\* renderers.Text computing its content
RenderText ==
  /\ stage = "normalized"
  /\ normText # Thrown
  /\ stage' = "rendered"
  /\ displayed' = resolveText(normText)
  /\ UNCHANGED << bindValue, bindData, normText, normSource, notBind >>

NextBind == Normalize \/ RenderText

SpecBind == InitBind /\ [][NextBind]_vars

(***************************************************************************)
(* The pointer resolver applied to one data value and one pointer          *)
(***************************************************************************)
MaxSegments == 2

\* the segments the pointers of the model are made of
Segments ==
  { << >>, << "0" >>, << "1" >>, << "5" >>, << "0","1" >>,
    << "-","1" >>, << "-","0" >>, << "+","1" >>,
    << "0",".","5" >>, << "1",".","0" >>, << "1","e","0" >>, << "0","x","1" >>,
    << " ","0" >>, << "1"," " >>,
    K_a, K_b, K_c, K_x, K_l, K_z, << "s","~","1","t" >>,
    << "l","e","n","g","t","h" >>, K_constructor }

\* "/" followed by the segments joined with "/"
RECURSIVE JoinSegments(_, _)
JoinSegments(segs, i) ==
  IF i > Len(segs) THEN << >>
  ELSE << "/" >> \o segs[i] \o JoinSegments(segs, i + 1)

PointerTexts ==
  { JoinSegments(segs, 1) :
      segs \in UNION { [1..n -> Segments] : n \in 1..MaxSegments } }
  \cup { P_empty, P_noSlash, P_ab0, P_ab0c, P_ab5 }

\* [ "yo", { c: 1 }, [ 5 ] ]
DM_list ==
  JArr(<< JStr(s_yo), JObj([h \in {K_c} |-> JNum(1)]), JArr(<< JNum(5) >>) >>)

PointerData ==
  { JNull, JUndefined, JStr(s_yo), JNum(0), DM_empty, DM_doc, DM_kinds, DM_list }

InitResolve ==
  /\ stage = "pointer"
  /\ IdleExcept("resolve")
  /\ pointerData \in PointerData
  /\ pointerText \in PointerTexts
  /\ pointerResult = JUndefined

\* resolveJsonPointer(data, pointer)
Resolve ==
  /\ stage = "pointer"
  /\ stage' = "resolved"
  /\ pointerResult' = resolveJsonPointer(pointerData, JStr(pointerText))
  /\ UNCHANGED << pointerData, pointerText, notResolve >>

NextResolve == Resolve

SpecResolve == InitResolve /\ [][NextResolve]_vars

(***************************************************************************)
(* Graph Builder (buildComponentTreeFromFlat).  The scan of the flat list  *)
(* is one step; the recursion of buildNode runs call by call on a stack.   *)
(***************************************************************************)
Ids == { "a", "b", "c" }

\* a definition carries one tag; a Card's child is a child list of one
\* listKind is what explicitList is: an array, or a malformed value
ColumnDef(childIds) ==
  [tag |-> "Column", children |-> childIds, props |-> EmptyMap, listKind |-> "array", text |-> JUndefined]
RowDef(childIds) ==
  [tag |-> "Row", children |-> childIds, props |-> EmptyMap, listKind |-> "array", text |-> JUndefined]
CardDef(child) ==
  [tag |-> "Card", children |-> << child >>, props |-> EmptyMap, listKind |-> "array", text |-> JUndefined]
TextDef(text) ==
  [tag |-> "Text", children |-> << >>, props |-> EmptyMap, listKind |-> "array", text |-> text]
\* an object with none of the seven component keys
FooDef ==
  [tag |-> "Foo", children |-> << >>, props |-> EmptyMap, listKind |-> "array",
   text |-> JUndefined]
\* a Column whose explicitList is a number
ColumnOfNumber ==
  [tag |-> "Column", children |-> << >>, props |-> EmptyMap, listKind |-> "number", text |-> JUndefined]
\* a Column whose explicitList is a string: iterating it gives its characters
ColumnOfString(chars) ==
  [tag |-> "Column", children |-> chars, props |-> EmptyMap, listKind |-> "string", text |-> JUndefined]
\* a definition that is no object, such as a string
PrimitiveDef ==
  [tag |-> "primitive", children |-> << >>, props |-> EmptyMap, listKind |-> "array", text |-> JUndefined]

\* a definition with the further properties declared on the component
WithProps(compDef, props) == [compDef EXCEPT !.props = props]

\* Object.values
ValuesOf(obj) == { obj[k] : k \in DOMAIN obj }

\* props.<key> of the component: undefined when it is not declared
Prop(compDef, key) ==
  IF key \in DOMAIN compDef.props THEN compDef.props[key] ELSE JUndefined

DividerDef ==
  [tag |-> "Divider", children |-> << >>, props |-> EmptyMap, listKind |-> "array",
   text |-> JUndefined]
\* source and name are among the props
IconDef(props) ==
  [tag |-> "Icon", children |-> << >>, props |-> props, listKind |-> "array",
   text |-> JUndefined]
\* source, altText, usageHint and fit are among the props
ImageDef(props) ==
  [tag |-> "Image", children |-> << >>, props |-> props, listKind |-> "array",
   text |-> JUndefined]

BoundText == TextDef(Binding([k \in {K_path} |-> JStr(P_x)]))

ContainerTags == { "Column", "Row", "Card" }
RecognizedTags == { "Column", "Row", "Card", "Divider", "Text", "Icon", "Image" }

ComponentDefs ==
  { TextDef(Binding([k \in {K_path} |-> JStr(P_x)])), FooDef }
  \cup { CardDef(x) : x \in Ids }
  \cup { ColumnDef(<< x, y >>) : x \in Ids, y \in Ids }

Records == [id : Ids, component : ComponentDefs]

FlatLists == UNION { [1..n -> Records] : n \in 0..MaxRecords }

\* the data model the builder resolves bindings against
BuildDataModel == DM_doc

\* the record is skipped by the scan: no id, or no definition object
Skipped(comp) ==
  IF comp.id = "" THEN TRUE ELSE comp.component.tag = "primitive"

\* for (const childId of explicitList) raises: the value is not iterable
ScanThrows(comps) ==
  \E i \in DOMAIN comps :
    /\ ~Skipped(comps[i])
    /\ comps[i].component.tag \in {"Column", "Row"}
    /\ comps[i].component.listKind = "number"

\* the child ids a definition adds to referenced
ChildRefs(compDef) ==
  IF compDef.tag \in ContainerTags
  THEN { compDef.children[j] : j \in { h \in DOMAIN compDef.children :
                                         compDef.children[h] # "" } }
  ELSE {}

\* the for loop over components, from record i on
RECURSIVE ScanFrom(_, _, _)
ScanFrom(comps, i, st) ==
  IF i > Len(comps) THEN st
  ELSE LET comp == comps[i]
       IN IF Skipped(comp) THEN ScanFrom(comps, i + 1, st)
          ELSE ScanFrom(comps, i + 1,
                 [keys |-> IF comp.id \in DOMAIN st.defs THEN st.keys
                           ELSE Append(st.keys, comp.id),
                  defs |-> [k \in DOMAIN st.defs \cup {comp.id} |->
                              IF k = comp.id THEN comp.component ELSE st.defs[k]],
                  referenced |-> st.referenced \cup ChildRefs(comp.component)])

ScanComponents(comps) ==
  ScanFrom(comps, 1, [keys |-> << >>, defs |-> EmptyMap, referenced |-> {}])

\* Array.from(idToDef.keys()).filter((id) => !referenced.has(id))
RootIds(keys, refd) == SelectSeq(keys, LAMBDA id : id \notin refd)

\* new Set([...seen, nodeId]) without the node: the guard forgets the chain
NextSeen_dropsNode(seen, nodeId) == seen

\* new Set([...seen, nodeId])
NextSeen(seen, nodeId) == seen \cup {nodeId}

\* a buildNode that returns a node for a definition with no recognized key
ReturnsNull_keepsUnrecognized(nodeId, seen, defs) ==
  IF nodeId \in seen THEN TRUE ELSE nodeId \notin DOMAIN defs

\* buildNode(nodeId, seen) returns null: a repeat on the chain, no definition,
\* or a definition with no recognized key
ReturnsNull(nodeId, seen, defs) ==
  IF nodeId \in seen THEN TRUE
  ELSE IF nodeId \notin DOMAIN defs THEN TRUE
  ELSE defs[nodeId].tag \notin RecognizedTags

\* the child ids the call maps buildNode over
ChildIdsOf(nodeId, seen, defs) ==
  IF ReturnsNull(nodeId, seen, defs) THEN << >>
  ELSE IF defs[nodeId].tag \in ContainerTags THEN defs[nodeId].children
  ELSE << >>

\* a call of buildNode that has just been entered
NewFrame(nodeId, seen, defs) ==
  [nodeId |-> nodeId, seen |-> seen,
   pending |-> ChildIdsOf(nodeId, seen, defs), children |-> << >>]

\* props.source ?? props.url
SourceOrUrl(compDef) ==
  IF IsNullish(Prop(compDef, "source")) THEN Prop(compDef, "url")
  ELSE Prop(compDef, "source")

\* the keys of the props object that the branch of a component type returns
NodeKeys(tag) ==
  CASE tag = "Column" -> {"gap", "alignment"}
    [] tag = "Row" -> {"gap", "alignment", "distribution"}
    [] tag = "Text" -> {"text", "usageHint"}
    [] tag = "Icon" -> {"source", "name"}
    [] tag = "Image" -> {"source", "altText"}
    [] OTHER -> {}

\* the props of the node returned for the definition under the data model: text,
\* name and altText through resolveTextValue, source through resolveSourceValue,
\* the others copied
NodePropsIn(compDef, dataModel) ==
  [k \in NodeKeys(compDef.tag) |->
     IF k \in {"text", "name", "altText"}
     THEN resolveTextValue(IF k = "text" THEN compDef.text ELSE Prop(compDef, k), dataModel)
     ELSE IF k = "source"
     THEN resolveSourceValue(SourceOrUrl(compDef), dataModel)
     ELSE Prop(compDef, k)]

\* the props of the returned node
NodeProps(compDef) == NodePropsIn(compDef, BuildDataModel)

\* the call raises before it maps its children: childIds.map is not a function,
\* or the normalizer of a text or source raises
EntryThrows(nodeId, seen, defs) ==
  IF ReturnsNull(nodeId, seen, defs) THEN FALSE
  ELSE IF defs[nodeId].tag \in {"Column", "Row"} THEN defs[nodeId].listKind # "array"
  ELSE Thrown \in ValuesOf(NodeProps(defs[nodeId]))

\* the ComponentNode a call returns once its children are built
MakeNode(frame, defs) ==
  [id |-> frame.nodeId, type |-> defs[frame.nodeId].tag,
   props |-> NodeProps(defs[frame.nodeId]), children |-> frame.children]

\* .filter(Boolean): a null result adds nothing
Kept(result) == IF result = JNull THEN << >> ELSE << result >>

\* a caller that puts each result before the results it already has
Deliver_prepends(rest, result) ==
  IF rest = << >>
  THEN /\ stack' = << >>
       /\ forest' = forest \o Kept(result)
  ELSE LET parent == rest[Len(rest)]
       IN /\ stack' = [rest EXCEPT ![Len(rest)] =
                         [parent EXCEPT !.pending = Tail(parent.pending),
                                        !.children = Kept(result) \o parent.children]]
          /\ forest' = forest

\* the caller of a returning call receives its result
Deliver(rest, result) ==
  IF rest = << >>
  THEN /\ stack' = << >>
       /\ forest' = forest \o Kept(result)
  ELSE LET parent == rest[Len(rest)]
       IN /\ stack' = [rest EXCEPT ![Len(rest)] =
                         [parent EXCEPT !.pending = Tail(parent.pending),
                                        !.children = parent.children \o Kept(result)]]
          /\ forest' = forest

Top == stack[Len(stack)]
Popped == SubSeq(stack, 1, Len(stack) - 1)

InitBuild ==
  /\ stage = "flat"
  /\ IdleExcept("build")
  /\ components \in FlatLists
  /\ idToDefKeys = << >> /\ idToDef = EmptyMap /\ referenced = {}
  /\ rootQueue = << >> /\ stack = << >> /\ forest = << >>

\* lines 215-236 and 285: the maps are filled and the roots selected
Scan ==
  /\ stage = "flat"
  /\ IF ScanThrows(components)
     THEN /\ stage' = "threw"
          /\ UNCHANGED << idToDefKeys, idToDef, referenced, rootQueue >>
     ELSE /\ LET st == ScanComponents(components)
             IN /\ idToDefKeys' = st.keys
                /\ idToDef' = st.defs
                /\ referenced' = st.referenced
                /\ rootQueue' = RootIds(st.keys, st.referenced)
          /\ stage' = "building"
  /\ UNCHANGED << components, stack, forest, notBuild >>

\* rootIds.map: buildNode(rid, new Set())
StartRoot ==
  /\ stage = "building"
  /\ stack = << >>
  /\ rootQueue # << >>
  /\ stack' = << NewFrame(Head(rootQueue), {}, idToDef) >>
  /\ rootQueue' = Tail(rootQueue)
  /\ UNCHANGED << components, idToDefKeys, idToDef, referenced, forest, stage,
                  notBuild >>

\* buildNode(cid, nextSeen) for the next child id of the innermost call
Descend ==
  /\ stage = "building"
  /\ stack # << >>
  /\ Len(stack) < MaxCallDepth
  /\ ~EntryThrows(Top.nodeId, Top.seen, idToDef)
  /\ Top.pending # << >>
  /\ stack' = Append(stack, NewFrame(Head(Top.pending),
                                     NextSeen(Top.seen, Top.nodeId), idToDef))
  /\ UNCHANGED << components, idToDefKeys, idToDef, referenced, rootQueue, forest,
                  stage, notBuild >>

\* the innermost call returns null
ReturnNull ==
  /\ stage = "building"
  /\ stack # << >>
  /\ ReturnsNull(Top.nodeId, Top.seen, idToDef)
  /\ Deliver(Popped, JNull)
  /\ UNCHANGED << components, idToDefKeys, idToDef, referenced, rootQueue, stage,
                  notBuild >>

\* the innermost call has mapped all its child ids and returns its node
ReturnNode ==
  /\ stage = "building"
  /\ stack # << >>
  /\ ~ReturnsNull(Top.nodeId, Top.seen, idToDef)
  /\ ~EntryThrows(Top.nodeId, Top.seen, idToDef)
  /\ Top.pending = << >>
  /\ Deliver(Popped, MakeNode(Top, idToDef))
  /\ UNCHANGED << components, idToDefKeys, idToDef, referenced, rootQueue, stage,
                  notBuild >>

\* buildComponentTreeFromFlat returns the forest
Finish ==
  /\ stage = "building"
  /\ stack = << >>
  /\ rootQueue = << >>
  /\ stage' = "built"
  /\ UNCHANGED << components, idToDefKeys, idToDef, referenced, rootQueue, stack,
                  forest, notBuild >>

NextBuild == Scan \/ StartRoot \/ Descend \/ ReturnNull \/ ReturnNode \/ Finish

SpecBuild == InitBuild /\ [][NextBuild]_vars

\* the ids in the order the one-record-per-id lists carry them
IdOrder == << "a", "b", "c" >>

\* no record for the id
NoRecord ==
  [tag |-> "absent", children |-> << >>, props |-> EmptyMap, listKind |-> "array", text |-> JUndefined]

\* the records of the ids that pick has a definition for, in IdOrder
RECURSIVE ListOf(_, _)
ListOf(pick, i) ==
  IF i > Len(IdOrder) THEN << >>
  ELSE IF pick[IdOrder[i]] = NoRecord THEN ListOf(pick, i + 1)
       ELSE << [id |-> IdOrder[i], component |-> pick[IdOrder[i]]] >>
            \o ListOf(pick, i + 1)

\* the flat lists with at most one record per id
DistinctIdLists ==
  { ListOf(pick, 1) : pick \in [Ids -> ComponentDefs \cup {NoRecord}] }

InitBuildDistinct ==
  /\ stage = "flat"
  /\ IdleExcept("build")
  /\ components \in DistinctIdLists
  /\ idToDefKeys = << >> /\ idToDef = EmptyMap /\ referenced = {}
  /\ rootQueue = << >> /\ stack = << >> /\ forest = << >>

\* the records of any shape: no id, a definition that is no object, an
\* unrecognized key, a Text without text or with a path that is no string, a
\* child list that is no array
AnyIds == Ids \cup { "" }

AnyDefs ==
  { BoundText, FooDef, CardDef("b"), ColumnDef(<< "b", "c" >>),
    PrimitiveDef, ColumnOfNumber, ColumnOfString(<< "b", "c" >>),
    TextDef(JUndefined), TextDef(Binding([k \in {K_path} |-> JNum(5)])) }

AnyRecords == [id : AnyIds, component : AnyDefs]

AnyLists == UNION { [1..n -> AnyRecords] : n \in 0..MaxRecords }

InitBuildAny ==
  /\ stage = "flat"
  /\ IdleExcept("build")
  /\ components \in AnyLists
  /\ idToDefKeys = << >> /\ idToDef = EmptyMap /\ referenced = {}
  /\ rootQueue = << >> /\ stack = << >> /\ forest = << >>

\* a TypeError raised in the innermost call leaves buildComponentTreeFromFlat
Throw ==
  /\ stage = "building"
  /\ stack # << >>
  /\ EntryThrows(Top.nodeId, Top.seen, idToDef)
  /\ stage' = "threw"
  /\ stack' = << >>
  /\ UNCHANGED << components, idToDefKeys, idToDef, referenced, rootQueue, forest,
                  notBuild >>

NextBuildAny == NextBuild \/ Throw

SpecBuildAny == InitBuildAny /\ [][NextBuildAny]_vars

\* the property values of the model: a gap, an alignment, a distribution,
\* a usage hint of a Text, a usage hint of an Image, an object fit
v_small == JStr(<< "s","m","a","l","l" >>)
v_center == JStr(<< "c","e","n","t","e","r" >>)
v_spaceBetween == JStr(<< "s","p","a","c","e","B","e","t","w","e","e","n" >>)
v_h1 == JStr(<< "h","1" >>)
v_avatar == JStr(<< "a","v","a","t","a","r" >>)
v_contain == JStr(<< "c","o","n","t","a","i","n" >>)

\* the objects over some of the keys, each key with its value
PropMaps(values) == { [k \in keys |-> values[k]] : keys \in SUBSET DOMAIN values }

ColumnProps == PropMaps([gap |-> v_small, alignment |-> v_center])
RowProps == PropMaps([gap |-> v_small, distribution |-> v_spaceBetween])
TextProps == PropMaps([usageHint |-> v_h1])
ImageProps ==
  { p @@ [k \in {"source", "altText"} |->
            IF k = "source" THEN JObj([h \in {K_url} |-> JStr(s_u)])
            ELSE JObj([h \in {K_path} |-> JStr(P_x)])] :
      p \in PropMaps([usageHint |-> v_avatar, fit |-> v_contain]) }

\* components that declare presentation properties
PropDefs ==
  { WithProps(ColumnDef(<< "b", "c" >>), p) : p \in ColumnProps }
  \cup { WithProps(RowDef(<< "b" >>), p) : p \in RowProps }
  \cup { WithProps(BoundText, p) : p \in TextProps }
  \cup { ImageDef(p) : p \in ImageProps }
  \cup { IconDef([k \in {"source"} |-> JStr(s_u)]), DividerDef, CardDef("b") }

PropLists ==
  { << >> }
  \cup { << [id |-> "a", component |-> d] >> : d \in PropDefs }
  \cup { << [id |-> "a", component |-> d], [id |-> "b", component |-> e] >> :
           d \in PropDefs, e \in PropDefs }

InitBuildProps ==
  /\ stage = "flat"
  /\ IdleExcept("build")
  /\ components \in PropLists
  /\ idToDefKeys = << >> /\ idToDef = EmptyMap /\ referenced = {}
  /\ rootQueue = << >> /\ stack = << >> /\ forest = << >>

SpecBuildProps == InitBuildProps /\ [][NextBuild]_vars

\* the builder is synchronous code: a call in progress runs on to its return
SpecBuildFair == InitBuildDistinct /\ [][NextBuild]_vars /\ WF_vars(NextBuild)

(***************************************************************************)
(* buildComponentTreeFromFlat as a function of the list and the data model *)
(***************************************************************************)
RECURSIVE BuildNodeOf(_, _, _, _)
RECURSIVE BuildChildrenOf(_, _, _, _)

\* buildNode(nodeId, seen): null or the node
BuildNodeOf(nodeId, seen, defs, dataModel) ==
  IF ReturnsNull(nodeId, seen, defs) THEN JNull
  ELSE [id |-> nodeId, type |-> defs[nodeId].tag,
        props |-> NodePropsIn(defs[nodeId], dataModel),
        children |-> BuildChildrenOf(ChildIdsOf(nodeId, seen, defs),
                                     NextSeen(seen, nodeId), defs, dataModel)]

\* ids.map((cid) => buildNode(cid, seen)).filter(Boolean)
BuildChildrenOf(ids, seen, defs, dataModel) ==
  IF ids = << >> THEN << >>
  ELSE Kept(BuildNodeOf(Head(ids), seen, defs, dataModel))
       \o BuildChildrenOf(Tail(ids), seen, defs, dataModel)

BuildForest(comps, dataModel) ==
  LET st == ScanComponents(comps)
  IN BuildChildrenOf(RootIds(st.keys, st.referenced), {}, st.defs, dataModel)

(***************************************************************************)
(* buildDebugSurfaces: a stream of messages turned into surfaces           *)
(***************************************************************************)
MaxMessages == 3

SurfaceNames == { "main", "side" }

SurfaceUpdateMsg(surface, comps) ==
  [type |-> "surfaceUpdate", surface |-> surface, hasComponents |-> TRUE,
   components |-> comps, data |-> JUndefined]
DataModelUpdateMsg(data) ==
  [type |-> "dataModelUpdate", surface |-> "", hasComponents |-> FALSE,
   components |-> << >>, data |-> data]
BeginRenderingMsg(surface) ==
  [type |-> "beginRendering", surface |-> surface, hasComponents |-> FALSE,
   components |-> << >>, data |-> JUndefined]

\* the component lists the surfaceUpdates of the model carry
StreamLists ==
  { << >>,
    << [id |-> "a", component |-> BoundText] >>,
    << [id |-> "a", component |-> CardDef("b")],
       [id |-> "b", component |-> BoundText] >>,
    << [id |-> "c", component |-> ColumnDef(<< "a", "b" >>)],
       [id |-> "a", component |-> FooDef],
       [id |-> "b", component |-> BoundText] >> }

\* { x: "hi" }
DM_hi == JObj([k \in {K_x} |-> JStr(s_hi)])

StreamData == { DM_doc, DM_hi }

Messages ==
  { SurfaceUpdateMsg(n, l) : n \in SurfaceNames, l \in StreamLists }
  \cup { DataModelUpdateMsg(d) : d \in StreamData }
  \cup { BeginRenderingMsg(n) : n \in SurfaceNames }

MessageStreams == UNION { [1..n -> Messages] : n \in 0..MaxMessages }

\* an assignment that merges: the new components are added to the old ones
SetEntry_merges(entries, name, value) ==
  IF \E i \in DOMAIN entries : entries[i].name = name
  THEN [i \in DOMAIN entries |->
          IF entries[i].name = name
          THEN [name |-> name,
                components |-> entries[i].components \o value.components,
                dataModel |-> value.dataModel]
          ELSE entries[i]]
  ELSE Append(entries, [name |-> name] @@ value)

\* surfaceEntries[name] = value: a new key goes last, a known key keeps its place
SetEntry(entries, name, value) ==
  IF \E i \in DOMAIN entries : entries[i].name = name
  THEN [i \in DOMAIN entries |->
          IF entries[i].name = name THEN [name |-> name] @@ value ELSE entries[i]]
  ELSE Append(entries, [name |-> name] @@ value)

\* the for loop over the items of the parsed array
RECURSIVE ProcessItems(_, _, _, _)
ProcessItems(parsed, i, currentDataModel, entries) ==
  IF i > Len(parsed) THEN entries
  ELSE LET item == parsed[i]
       IN IF item.type = "dataModelUpdate" /\ ~Falsy(item.data) /\ TypeofObject(item.data)
          THEN ProcessItems(parsed, i + 1, item.data, entries)
          ELSE IF item.type = "surfaceUpdate" /\ item.hasComponents
          THEN ProcessItems(parsed, i + 1, currentDataModel,
                 SetEntry(entries, item.surface,
                          [components |-> item.components,
                           dataModel |-> currentDataModel]))
          ELSE IF item.hasComponents
          THEN ProcessItems(parsed, i + 1, currentDataModel,
                 SetEntry(entries, "Debug",
                          [components |-> item.components,
                           dataModel |-> currentDataModel]))
          ELSE ProcessItems(parsed, i + 1, currentDataModel, entries)

\* items.every(...): no message carries a component key, only the empty array passes
looksLikeComponentList(items) == items = << >>

\* buildDebugSurfaces for a parsed array of messages
BuildDebugSurfaces(parsed) ==
  LET entries ==
        IF looksLikeComponentList(parsed)
        THEN << [name |-> "Debug", components |-> parsed, dataModel |-> JNull] >>
        ELSE ProcessItems(parsed, 1, JNull, << >>)
  IN IF entries = << >> THEN [isNull |-> TRUE, surfaces |-> << >>]
     ELSE [isNull |-> FALSE,
           surfaces |-> [i \in DOMAIN entries |->
                           [name |-> entries[i].name,
                            forest |-> BuildForest(entries[i].components,
                                                   entries[i].dataModel)]]]

InitStream ==
  /\ stage = "stream"
  /\ IdleExcept("stream")
  /\ messageStream \in MessageStreams
  /\ debugSurfaces = [isNull |-> TRUE, surfaces |-> << >>]

\* debugSurfacesFromJson = buildDebugSurfaces()
ReadStream ==
  /\ stage = "stream"
  /\ stage' = "surfaces"
  /\ debugSurfaces' = BuildDebugSurfaces(messageStream)
  /\ UNCHANGED << messageStream, notStream >>

NextStream == ReadStream

SpecStream == InitStream /\ [][NextStream]_vars

(***************************************************************************)
(* The component renderers (registry.tsx)                                  *)
(***************************************************************************)
MaxChildren == 2

ThrownDrawable == Drawable("threw", "", << >>, << >>)

\* resolveSourceUrl: the url of a bare string or of { url }
resolveSourceUrl(source) ==
  IF Falsy(source) THEN JNull
  ELSE IF source.t = "string" THEN source
  ELSE IF source.t # "object" THEN Thrown  \* `in` applied to a primitive
  ELSE IF HasProperty(source, K_url) /\ GetProperty(source, K_url).t = "string"
  THEN GetProperty(source, K_url)
  ELSE JNull

\* resolveSourcePath: the path of { path }; `in` raises on a string
resolveSourcePath(source) ==
  IF Falsy(source) THEN JNull
  ELSE IF source.t # "object" THEN Thrown
  ELSE IF HasProperty(source, K_path) /\ GetProperty(source, K_path).t = "string"
  THEN GetProperty(source, K_path)
  ELSE JNull

LowerCase ==
  << "a","b","c","d","e","f","g","h","i","j","k","l","m",
     "n","o","p","q","r","s","t","u","v","w","x","y","z" >>
UpperCase ==
  << "A","B","C","D","E","F","G","H","I","J","K","L","M",
     "N","O","P","Q","R","S","T","U","V","W","X","Y","Z" >>

toUpperCase(ch) ==
  IF \E i \in DOMAIN LowerCase : LowerCase[i] = ch
  THEN UpperCase[CHOOSE i \in DOMAIN LowerCase : LowerCase[i] = ch]
  ELSE ch

\* the characters of [\s_-]
NameSeparators == WhiteSpace \cup { "_", "-" }

\* split(/[\s_-]+/).filter(Boolean): the runs of characters between separators
RECURSIVE SplitParts(_, _, _)
SplitParts(chars, i, acc) ==
  IF i > Len(chars) THEN SelectSeq(acc, LAMBDA part : part # << >>)
  ELSE IF chars[i] \in NameSeparators
       THEN SplitParts(chars, i + 1, Append(acc, << >>))
       ELSE SplitParts(chars, i + 1,
              [acc EXCEPT ![Len(acc)] = Append(acc[Len(acc)], chars[i])])

\* .map((part) => part[0]?.toUpperCase() + part.slice(1)).join('')
RECURSIVE JoinPascal(_)
JoinPascal(parts) ==
  IF parts = << >> THEN << >>
  ELSE << toUpperCase(Head(parts)[1]) >> \o Tail(Head(parts)) \o JoinPascal(Tail(parts))

normalizeIconName(name) ==
  IF Falsy(name) THEN JNull
  ELSE LET trimmed == TrimRight(TrimLeft(name.s))
       IN IF trimmed = << >> THEN JNull
          ELSE LET pascalCased == JoinPascal(SplitParts(trimmed, 1, << << >> >>))
               IN IF pascalCased = << >> THEN JStr(trimmed) ELSE JStr(pascalCased)

\* replace(/Icon$/i, '')
StripIconSuffix(chars) ==
  LET n == Len(chars)
  IN IF n >= 4 /\ [i \in 1..4 |-> toUpperCase(chars[n - 4 + i])] = << "I","C","O","N" >>
     THEN SubSeq(chars, 1, n - 4)
     ELSE chars

\* the keys of the icons export that the model knows
LucideIcons == { << "S","t","a","r" >> }

\* resolveLucideIcon: the first candidate that names an icon, as its key
resolveLucideIcon(name) ==
  LET normalized == normalizeIconName(name)
  IN IF Falsy(normalized) THEN JNull
     ELSE IF normalized.s \in LucideIcons THEN normalized
     ELSE IF StripIconSuffix(normalized.s) \in LucideIcons
     THEN JStr(StripIconSuffix(normalized.s))
     ELSE JNull

\* the elements a renderer returns once its children are drawn
Element(tag, text, parts) ==
  IF \E i \in DOMAIN parts : parts[i].outcome = "threw" THEN ThrownDrawable
  ELSE Drawable("element", tag, text, parts)

t_Icon == << "I","c","o","n" >>
t_EmptyCard == << "E","m","p","t","y"," ","c","a","r","d" >>
t_GenUIImage == << "G","e","n","U","I"," ","i","m","a","g","e" >>
t_SourceMissing ==
  << "I","m","a","g","e"," ","s","o","u","r","c","e"," ","m","i","s","s","i","n","g" >>
t_Unsupported ==
  << "U","n","s","u","p","p","o","r","t","e","d"," ","c","o","m","p","o","n","e","n","t" >>

\* renderers.Text
renderText(node) ==
  LET content == resolveText(node.text)
  IN IF content = Thrown THEN ThrownDrawable
     ELSE Element("Text", StringOf(content), << >>)

\* renderers.Icon
renderIcon(node) ==
  LET src == resolveSourceUrl(node.source)
      dataPath == resolveSourcePath(node.source)
      iconName == resolveText(node.name)
  IN IF src = Thrown THEN ThrownDrawable
     ELSE IF dataPath = Thrown THEN ThrownDrawable
     ELSE IF iconName = Thrown THEN ThrownDrawable
     ELSE LET LucideIcon == resolveLucideIcon(iconName)
              glyph == IF LucideIcon # JNull THEN Element("LucideIcon", LucideIcon.s, << >>)
                       ELSE IF ~Falsy(src) THEN Element("img", src.s, << >>)
                       ELSE Element("span", t_Icon, << >>)
              nameLabel == IF ~Falsy(iconName) /\ LucideIcon = JNull
                           THEN << Element("Name", iconName.s, << >>) >> ELSE << >>
              pathLabel == IF ~Falsy(dataPath) /\ Falsy(src) /\ LucideIcon = JNull
                           THEN << Element("Path", dataPath.s, << >>) >> ELSE << >>
          IN Element("Icon", << >>, << glyph >> \o nameLabel \o pathLabel)

\* renderers.Image
renderImage(node) ==
  LET src == resolveSourceUrl(node.source)
      dataPath == resolveSourcePath(node.source)
      alt == resolveText(node.text)
  IN IF src = Thrown THEN ThrownDrawable
     ELSE IF dataPath = Thrown THEN ThrownDrawable
     ELSE IF alt = Thrown THEN ThrownDrawable
     ELSE LET altText == IF Falsy(alt) THEN t_GenUIImage ELSE alt.s
          IN IF ~Falsy(src)
             THEN Element("Image", altText, << Element("img", src.s, << >>) >>)
             ELSE IF ~Falsy(dataPath)
             THEN Element("Image", altText, << Element("Path", dataPath.s, << >>) >>)
             ELSE Element("Image", altText, << Element("div", t_SourceMissing, << >>) >>)

\* renderComponent with renderChild = renderNode of Screen.tsx, which calls it
RECURSIVE renderComponent(_)
renderComponent(node) ==
  CASE node.type \in {"Column", "Row"} ->
         Element(node.type, << >>,
                 [i \in DOMAIN node.children |-> renderComponent(node.children[i])])
    [] node.type = "Card" ->
         IF node.children = << >>
         THEN Element("Card", << >>, << Element("div", t_EmptyCard, << >>) >>)
         ELSE Element("Card", << >>, << renderComponent(node.children[1]) >>)
    [] node.type = "Divider" -> Element("Divider", << >>, << >>)
    [] node.type = "Text" -> renderText(node)
    [] node.type = "Icon" -> renderIcon(node)
    [] node.type = "Image" -> renderImage(node)
    [] OTHER -> Drawable("fallback", "div", t_Unsupported, << >>)

s_star == << "s","t","a","r" >>
s_starIcon == << "s","t","a","r","-","i","c","o","n" >>
s_nope == << "n","o","p","e" >>

\* a source by its declared type: absent, null, a bare string, { url }, { path }
SourceValues ==
  { JUndefined, JNull, JStr(s_u),
    JObj([k \in {K_url} |-> JStr(s_u)]),
    JObj([k \in {K_path} |-> JStr(P_x)]) }

\* a text by its declared type: absent, a bare string, { literal }, { path }
TextValues ==
  { JUndefined, JStr(s_hi),
    JObj([k \in {K_literal} |-> JStr(s_hi)]),
    JObj([k \in {K_path} |-> JStr(P_x)]) }

IconNames == { JUndefined, JStr(s_star), JStr(s_starIcon), JStr(s_nope) }

LeafNodes ==
  { Node("Divider", JUndefined, JUndefined, JUndefined, << >>),
    Node("Foo", JUndefined, JUndefined, JUndefined, << >>) }
  \cup { Node("Text", JUndefined, JUndefined, t, << >>) : t \in TextValues }
  \cup { Node("Icon", src, n, JUndefined, << >>) : src \in SourceValues, n \in IconNames }
  \cup { Node("Image", src, JUndefined, t, << >>) :
           src \in SourceValues, t \in { JUndefined, JStr(s_hi) } }

ChildLists == UNION { [1..n -> LeafNodes] : n \in 0..MaxChildren }

DrawNodes ==
  LeafNodes
  \cup { Node(type, JUndefined, JUndefined, JUndefined, children) :
           type \in {"Column", "Row"}, children \in ChildLists }
  \cup { Node("Card", JUndefined, JUndefined, JUndefined, children) :
           children \in { c \in ChildLists : Len(c) <= 1 } }

InitRender ==
  /\ stage = "node"
  /\ IdleExcept("render")
  /\ drawNode \in DrawNodes
  /\ drawable = NoDrawable

\* renderNode(current): renderComponent(current, renderNode)
Render ==
  /\ stage = "node"
  /\ stage' = "drawn"
  /\ drawable' = renderComponent(drawNode)
  /\ UNCHANGED << drawNode, notRender >>

NextRender == Render

SpecRender == InitRender /\ [][NextRender]_vars

(***************************************************************************)
(* The session page polling the server (Session.tsx)                       *)
(***************************************************************************)
MaxPolls == 3
MaxInFlight == 2

\* lastSeqRef.current before the first response: null
NoSeq == -1

\* the export of Home.tsx for its empty debugComponentsJson: null
debugSurfacesFromJson == [isNull |-> TRUE, surfaces |-> << >>]

UiState(surfaces) == [isNull |-> FALSE, surfaces |-> surfaces]

\* the ui of a SessionState: no surface, or surface a with one of two forests
UiStates ==
  { UiState(<< >>) } \cup { UiState(<< [name |-> "a", forest |-> f] >>) : f \in Forests }

\* the events of a SessionState, by their seq
EventLists == { << >>, << 1 >>, << 1, 2 >> }

Response(kind, ui, seqs) == [kind |-> kind, ui |-> ui, seqs |-> seqs]

\* fetch rejects, the status is not ok, or the body is no JSON
FailureKinds == { "network", "http", "json" }

Responses ==
  { Response(k, NoUiState, << >>) : k \in FailureKinds }
  \cup { Response("ok", ui, seqs) : ui \in UiStates, seqs \in EventLists }

\* err.message of what the promise chain rejects with
MessageOf(res) ==
  CASE res.kind = "network" -> "Failed to fetch"
    [] res.kind = "http" -> "Request failed: 500"
    [] OTHER -> "Unexpected end of JSON input"

\* Math.max(0, ...seqs)
RECURSIVE MaxSeq(_)
MaxSeq(seqs) == IF seqs = << >> THEN 0 ELSE Max2(Head(seqs), MaxSeq(Tail(seqs)))

\* the state of the component that the callbacks read and write
SessionState ==
  [uiState |-> uiState, events |-> events, error |-> error, loading |-> loading,
   lastSeqRef |-> lastSeqRef]

\* a catch callback that also drops the ui
CatchHandler_dropsUi(st, message, mounted) ==
  IF mounted
  THEN [st EXCEPT !.error = message, !.loading = FALSE, !.uiState = NoUiState]
  ELSE st

\* .catch((err) => ...)
CatchHandler(st, message, mounted) ==
  IF mounted THEN [st EXCEPT !.error = message, !.loading = FALSE] ELSE st

\* .then(async (res) => ...) for an ok response with a JSON body
ThenHandler(st, res, mounted) ==
  LET nextSeq == MaxSeq(res.seqs)
  IN IF mounted /\ st.lastSeqRef = nextSeq THEN st
     ELSE IF mounted
     THEN [st EXCEPT !.lastSeqRef = nextSeq, !.uiState = res.ui,
                     !.events = res.seqs, !.loading = FALSE]
     ELSE st

\* what the render of Session shows
LiveSurfaces == IF uiState.isNull THEN << >> ELSE uiState.surfaces
SurfacesToRender ==
  IF debugSurfacesFromJson.isNull THEN LiveSurfaces ELSE debugSurfacesFromJson.surfaces
HasSurfaces == SurfacesToRender # << >>
ShowLoading == loading /\ ~HasSurfaces
ShowError == error # "" /\ ~HasSurfaces

\* the effect has run: loadSession() was called once and the interval is set
InitSession ==
  /\ stage = "session"
  /\ IdleExcept("session")
  /\ uiState = NoUiState /\ events = << >> /\ error = "" /\ loading = TRUE
  /\ lastSeqRef = NoSeq /\ isMounted = TRUE
  /\ inFlight = 1 /\ settled = NoResponse /\ polls = 1

\* window.setInterval(loadSession, 1000) fires
IntervalTick ==
  /\ stage = "session"
  /\ isMounted
  /\ polls < MaxPolls
  /\ inFlight < MaxInFlight
  /\ inFlight' = inFlight + 1
  /\ polls' = polls + 1
  /\ UNCHANGED << uiState, events, error, loading, lastSeqRef, isMounted, settled,
                  stage, notSession >>

\* a fetch settles: the network fails, or the server answers
FetchSettles ==
  /\ stage = "session"
  /\ inFlight > 0
  /\ settled = NoResponse
  /\ \E res \in Responses : settled' = res
  /\ inFlight' = inFlight - 1
  /\ UNCHANGED << uiState, events, error, loading, lastSeqRef, isMounted, polls,
                  stage, notSession >>

\* the then / catch callbacks of the settled fetch run
RunCallbacks ==
  /\ stage = "session"
  /\ settled # NoResponse
  /\ LET st == IF settled.kind = "ok"
               THEN ThenHandler(SessionState, settled, isMounted)
               ELSE CatchHandler(SessionState, MessageOf(settled), isMounted)
     IN /\ uiState' = st.uiState
        /\ events' = st.events
        /\ error' = st.error
        /\ loading' = st.loading
        /\ lastSeqRef' = st.lastSeqRef
  /\ settled' = NoResponse
  /\ UNCHANGED << isMounted, inFlight, polls, stage, notSession >>

\* the cleanup of the effect
Unmount ==
  /\ stage = "session"
  /\ isMounted
  /\ isMounted' = FALSE
  /\ UNCHANGED << uiState, events, error, loading, lastSeqRef, inFlight, settled,
                  polls, stage, notSession >>

NextSession == IntervalTick \/ FetchSettles \/ RunCallbacks \/ Unmount

SpecSession == InitSession /\ [][NextSession]_vars

(***************************************************************************)
(* The session page, its route parameter and the server's sessions         *)
(***************************************************************************)
MaxEvents == 2
MaxEffects == 2

\* the sessions the route may name
SessionIds == { "A", "B" }

\* the ui of session s when its highest event seq is n
SessionUi(s, n) ==
  UiState(IF n = 0 THEN << >> ELSE << [name |-> s, forest |-> "f"] >>)

\* the events of a session whose highest event seq is n
SessionEvents(n) == [i \in 1..n |-> i]

\* the server has not yet answered the fetch
Unanswered == -1

\* fetch(`${API_BASE}/session/${sessionId}`) called by run e of the effect
Fetch(e, s) == [effect |-> e, session |-> s, seq |-> Unanswered]

Without(fs, i) == SubSeq(fs, 1, i - 1) \o SubSeq(fs, i + 1, Len(fs))

\* the isMounted flag in the closure of run e of the effect
MountedIn(e) == e = effect /\ isMounted

\* the effect has run for session A: loadSession() was called and the interval is set
InitSessionServer ==
  /\ stage = "server"
  /\ IdleExcept("server")
  /\ uiState = NoUiState /\ events = << >> /\ error = "" /\ loading = TRUE
  /\ lastSeqRef = NoSeq /\ isMounted = TRUE
  /\ inFlight = 1 /\ settled = NoResponse /\ polls = 1
  /\ sessionId = "A" /\ effect = 1
  /\ serverSeq \in [SessionIds -> 0..MaxEvents]
  /\ fetches = << Fetch(1, "A") >>

\* window.setInterval(loadSession, 1000) fires
LoadSession ==
  /\ isMounted
  /\ polls < MaxPolls
  /\ Len(fetches) < MaxInFlight
  /\ fetches' = Append(fetches, Fetch(effect, sessionId))
  /\ inFlight' = inFlight + 1
  /\ polls' = polls + 1
  /\ UNCHANGED << uiState, events, error, loading, lastSeqRef, isMounted, settled,
                  sessionId, effect, serverSeq, stage, notPage >>

\* the server appends an event to a session
ServerAppendsEvent(s) ==
  /\ serverSeq[s] < MaxEvents
  /\ serverSeq' = [serverSeq EXCEPT ![s] = @ + 1]
  /\ UNCHANGED << sessionVars, sessionId, effect, fetches, stage, notPage >>

\* the server reads the session of a fetch and sends its state
ServerResponds(i) ==
  /\ fetches[i].seq = Unanswered
  /\ fetches' = [fetches EXCEPT ![i].seq = serverSeq[fetches[i].session]]
  /\ UNCHANGED << sessionVars, sessionId, effect, serverSeq, stage, notPage >>

\* the response of a fetch arrives, in any order: the then callback runs
ResponseHandled(i) ==
  /\ fetches[i].seq # Unanswered
  /\ LET f == fetches[i]
         res == Response("ok", SessionUi(f.session, f.seq), SessionEvents(f.seq))
         st == ThenHandler(SessionState, res, MountedIn(f.effect))
     IN /\ uiState' = st.uiState
        /\ events' = st.events
        /\ error' = st.error
        /\ loading' = st.loading
        /\ lastSeqRef' = st.lastSeqRef
  /\ fetches' = Without(fetches, i)
  /\ inFlight' = inFlight - 1
  /\ UNCHANGED << isMounted, settled, polls, sessionId, effect, serverSeq, stage,
                  notPage >>

\* a fetch fails: the catch callback runs
ResponseFails(i, kind) ==
  /\ LET st == CatchHandler(SessionState, MessageOf(Response(kind, NoUiState, << >>)),
                            MountedIn(fetches[i].effect))
     IN /\ uiState' = st.uiState
        /\ events' = st.events
        /\ error' = st.error
        /\ loading' = st.loading
        /\ lastSeqRef' = st.lastSeqRef
  /\ fetches' = Without(fetches, i)
  /\ inFlight' = inFlight - 1
  /\ UNCHANGED << isMounted, settled, polls, sessionId, effect, serverSeq, stage,
                  notPage >>

\* the route parameter changes: the cleanup of the effect, then the effect again
\* with its own isMounted flag and a first loadSession(); state and refs are kept
ChangeSessionId(s) ==
  /\ isMounted
  /\ s # sessionId
  /\ effect < MaxEffects
  /\ polls < MaxPolls
  /\ Len(fetches) < MaxInFlight
  /\ sessionId' = s
  /\ effect' = effect + 1
  /\ fetches' = Append(fetches, Fetch(effect + 1, s))
  /\ inFlight' = inFlight + 1
  /\ polls' = polls + 1
  /\ UNCHANGED << uiState, events, error, loading, lastSeqRef, isMounted, settled,
                  serverSeq, stage, notPage >>

\* the page is unmounted: the cleanup of the effect
UnmountPage ==
  /\ isMounted
  /\ isMounted' = FALSE
  /\ UNCHANGED << uiState, events, error, loading, lastSeqRef, inFlight, settled,
                  polls, serverVars, stage, notPage >>

NextSessionServer ==
  \/ LoadSession
  \/ \E s \in SessionIds : ServerAppendsEvent(s)
  \/ \E i \in 1..Len(fetches) : ServerResponds(i)
  \/ \E i \in 1..Len(fetches) : ResponseHandled(i)
  \/ \E i \in 1..Len(fetches), kind \in FailureKinds : ResponseFails(i, kind)
  \/ \E s \in SessionIds : ChangeSessionId(s)
  \/ UnmountPage

SpecSessionServer == InitSessionServer /\ [][NextSessionServer]_vars

(***************************************************************************)
(* The speech hook and the browser's SpeechRecognition objects             *)
(* (useWebSpeech.ts); the transcript pipeline of onresult is left out      *)
(***************************************************************************)
MaxStarts == 2

\* event.error of a SpeechRecognitionErrorEvent
ErrorCodes == { "not-allowed", "no-speech" }

\* a SpeechRecognition after recog.start(): the status that the handlers set
\* by setupHandlers closed over, how far its session is, whether stop() was called
Recognition(seen) == [seen |-> seen, phase |-> "starting", stopped |-> FALSE]

\* recog.onend: if (status === 'listening') setStatus('idle'), status being the
\* one of the render whose start() set the handler
OnEndStatus(current, seen) == IF seen = "listening" THEN "idle" ELSE current

\* the hook is mounted in a browser with the Web Speech API
InitSpeech ==
  /\ stage = "speech"
  /\ IdleExcept("speech")
  /\ status = "idle" /\ speechError = ""
  /\ recognitions = << >> /\ recognitionRef = 0

\* start(): a new recognition, setupHandlers(recog), recog.start()
Start ==
  /\ Len(recognitions) < MaxStarts
  /\ recognitions' = Append(recognitions, Recognition(status))
  /\ recognitionRef' = Len(recognitions) + 1
  /\ UNCHANGED << status, speechError, stage, notSpeech >>

\* stop(): recognitionRef.current?.stop(); setStatus('idle')
Stop ==
  /\ recognitions' =
       IF recognitionRef = 0 THEN recognitions
       ELSE [recognitions EXCEPT ![recognitionRef].stopped =
               @ \/ recognitions[recognitionRef].phase # "ended"]
  /\ status' = "idle"
  /\ UNCHANGED << speechError, recognitionRef, stage, notSpeech >>

\* the browser fires start on recognition r
OnStart(r) ==
  /\ recognitions[r].phase = "starting"
  /\ recognitions' = [recognitions EXCEPT ![r].phase = "running"]
  /\ status' = "listening"
  /\ speechError' = ""
  /\ UNCHANGED << recognitionRef, stage, notSpeech >>

\* the browser fires error on recognition r; end follows
OnError(r, code) ==
  /\ recognitions[r].phase \in { "starting", "running" }
  /\ recognitions' = [recognitions EXCEPT ![r].phase = "failed"]
  /\ speechError' = code
  /\ status' = IF code = "not-allowed" THEN "denied" ELSE "error"
  /\ UNCHANGED << recognitionRef, stage, notSpeech >>

\* the browser fires end on recognition r: after stop(), after an error, or
\* because the running recognition ended by itself
OnEnd(r) ==
  /\ IF recognitions[r].phase = "starting" THEN recognitions[r].stopped
     ELSE recognitions[r].phase \in { "running", "failed" }
  /\ recognitions' = [recognitions EXCEPT ![r].phase = "ended"]
  /\ status' = OnEndStatus(status, recognitions[r].seen)
  /\ UNCHANGED << speechError, recognitionRef, stage, notSpeech >>

NextSpeech ==
  \/ Start
  \/ Stop
  \/ \E r \in 1..Len(recognitions) : OnStart(r)
  \/ \E r \in 1..Len(recognitions), code \in ErrorCodes : OnError(r, code)
  \/ \E r \in 1..Len(recognitions) : OnEnd(r)

SpecSpeech == InitSpeech /\ [][NextSpeech]_vars

(***************************************************************************)
(* Properties of the layout packer and of the Screen component             *)
(***************************************************************************)
vw == ViewportWidth(containerSize, windowSize)
vh == ViewportHeight(containerSize, windowSize)

VisibleNames == NamesOf(layoutVisible)

\* the longest suffix of ord on which the fit check passes (the empty one always does)
LongestFittingSuffix(ord, meas, columnCount, height) ==
  LET n == Len(ord)
      starts == { i \in 1..(n + 1) : Fits(SubSeq(ord, i, n), meas, columnCount, height) }
      first == CHOOSE i \in starts : \A j \in starts : i <= j
  IN SubSeq(ord, first, n)

\* C1: in fullscreen mode with a non-zero viewport the visible set is the longest
\* suffix of the eligible surfaces, ascending by recency counter, that passes the
\* fit check; a surface is visible only if every eligible surface with a higher
\* counter is visible too, and the visible surfaces are listed oldest first.
C1_VisibleIsLongestFittingSuffix ==
  (stage = "packed" /\ isFullscreen /\ vw # 0 /\ vh # 0) =>
    LET eligible == Eligible(surfaceEntries, measurements, vw, vh)
        ord == OrderedByUpdate(eligible, updateOrder)
    IN /\ layoutVisible = LongestFittingSuffix(ord, measurements, ColumnCount(vw), vh)
       /\ \A i \in 1..Len(layoutVisible) : \A j \in 1..Len(eligible) :
            OrderKey(updateOrder, eligible[j].name)
              > OrderKey(updateOrder, layoutVisible[i].name)
            => eligible[j].name \in VisibleNames
       /\ \A i, j \in 1..Len(layoutVisible) :
            i < j => OrderKey(updateOrder, layoutVisible[i].name)
                       <= OrderKey(updateOrder, layoutVisible[j].name)

\* one column, viewport height 700, heights 300, 400, 500 updated in that order:
\* only the 500 surface is visible
C1_Witness ==
  /\ stage = "packed"
  /\ vw = 420 /\ vh = 700
  /\ DOMAIN measurements = PackNames
  /\ DOMAIN updateOrder = PackNames
  /\ measurements["a"] = [width |-> 400, height |-> 300]
  /\ measurements["b"] = [width |-> 400, height |-> 400]
  /\ measurements["c"] = [width |-> 400, height |-> 500]
  /\ updateOrder["a"] < updateOrder["b"] /\ updateOrder["b"] < updateOrder["c"]
  /\ layoutVisible = << [name |-> "c", forest |-> "f"] >>

\* C5: in fullscreen mode every visible surface has a measurement whose width
\* is at most the viewport width and whose height is at most the viewport height.
C5_VisibleOnlyIfMeasuredAndWithinViewport ==
  isFullscreen =>
    \A i \in 1..Len(layoutVisible) :
      /\ layoutVisible[i].name \in DOMAIN measurements
      /\ measurements[layoutVisible[i].name].width <= vw
      /\ measurements[layoutVisible[i].name].height <= vh

\* the only surface is measured wider than a non-zero viewport and is not shown
C5_Witness ==
  /\ isFullscreen /\ vw # 0 /\ vh # 0
  /\ raf = NoRaf
  /\ Len(surfaceEntries) = 1
  /\ surfaceEntries[1].name \in DOMAIN measurements
  /\ measurements[surfaceEntries[1].name].width > vw
  /\ measurements[surfaceEntries[1].name].height <= vh
  /\ layoutVisible = << >>

\* C6: in fullscreen mode a surface whose forest reference changed has no
\* measurement until a pass taken after the change completes: every measurement
\* held for a current surface, and so every measurement that decides visibility,
\* was taken of the surface's current forest.
C6_NoMeasurementOfPreviousForest ==
  isFullscreen =>
    \A i \in 1..Len(surfaceEntries) :
      surfaceEntries[i].name \in DOMAIN measurements
        => measuredForest[surfaceEntries[i].name] = surfaceEntries[i].forest

\* a name is in the observed surfaces with a new or different forest array
ForestChanged(n) ==
  /\ n \in DOMAIN prevSurfaces'
  /\ (n \notin DOMAIN prevSurfaces \/ prevSurfaces[n] # prevSurfaces'[n])

C7_Step ==
  /\ updateTick' >= updateTick
  /\ \A n \in DOMAIN updateOrder' : updateOrder'[n] <= updateTick'
  /\ \A n \in Names :
       /\ n \in DOMAIN prevSurfaces' => n \in DOMAIN updateOrder'
       /\ n \in DOMAIN prevSurfaces' =>
            (ForestChanged(n) <=> updateOrder'[n] > updateTick)
       /\ (n \in DOMAIN prevSurfaces' /\ ~ForestChanged(n)) =>
            (n \in DOMAIN updateOrder /\ updateOrder'[n] = updateOrder[n])
       /\ (n \in DOMAIN updateOrder /\ n \in DOMAIN updateOrder') =>
            updateOrder'[n] >= updateOrder[n]

\* C7: on each observation of a surfaces object a surface gets a fresh counter,
\* greater than the tick (which bounds every counter assigned so far), exactly
\* when it is new or its forest identity differs from the previous observation;
\* an unchanged surface keeps its counter; the tick and the counters never decrease.
C7_CounterBumpedIffForestChanged == [][C7_Step]_vars

\* b was bumped twice while a, unchanged, kept the counter of the first observation
C7_Witness ==
  /\ stage = "screen"
  /\ DOMAIN updateOrder = {"a", "b"}
  /\ updateOrder["a"] = 1
  /\ updateOrder["b"] = 3
  /\ updateTick = 3

\* C21: outside fullscreen mode the displayed surfaces are all the surface
\* entries in store order, whatever the measurements, the viewport and the
\* recency counters are.
C21_AllSurfacesShownOutsideFullscreen ==
  (stage = "screen" /\ ~isFullscreen) => layoutVisible = surfaceEntries

\* fullscreen mode was left with two surfaces in the store, which the packer
\* would not show for these measurements and this viewport
C21_Witness ==
  /\ stage = "screen"
  /\ ~isFullscreen
  /\ containerSize.width # 0 /\ containerSize.height # 0
  /\ updateTick >= 2
  /\ Len(surfaceEntries) = 2
  /\ layoutVisible = surfaceEntries
  /\ LayoutVisibleSurfaces(surfaceEntries, TRUE, measurements, vw, vh, updateOrder) = << >>

\* a measurement pass over the current forests has completed and the displayed
\* list is the packer's result on its measurements and the current counters
Settled ==
  /\ raf = NoRaf
  /\ DOMAIN measurements = NamesOf(surfaceEntries)
  /\ \A i \in 1..Len(surfaceEntries) :
       measuredForest[surfaceEntries[i].name] = surfaceEntries[i].forest
  /\ layoutVisible = LayoutVisibleSurfaces(surfaceEntries, TRUE, measurements, vw, vh,
                                           updateOrder)

\* C25: in fullscreen mode with a non-zero viewport, unless fullscreen mode is
\* left, eventually a measurement pass over the current forests completes and
\* the displayed list is the packer's result on those measurements and the
\* current recency counters.
C25_MeasureThenPackCompletes ==
  (stage = "screen" /\ isFullscreen /\ vw # 0 /\ vh # 0) ~> (Settled \/ ~isFullscreen)

\* surface a, the older one and 500 high, is displayed alone in a viewport 700
\* high after the newer surface was removed: the two never fit together
C25_Witness ==
  /\ stage = "screen"
  /\ isFullscreen /\ vw = 420 /\ vh = 700
  /\ Settled
  /\ Len(surfaceEntries) = 1
  /\ updateOrder[surfaceEntries[1].name] < updateTick
  /\ measurements[surfaceEntries[1].name] = [width |-> 400, height |-> 500]
  /\ layoutVisible = surfaceEntries

\* C26: every displayed fullscreen list is the packer's result under the recency
\* counters that reflect the surfaces being rendered: a surface whose forest
\* reference changed is ordered by its bumped counter in the render that first
\* shows it, never by its pre-change counter or by the default 0.
C26_RenderedOrderUsesBumpedCounters ==
  (stage = "screen" /\ isFullscreen) =>
    layoutVisible = LayoutVisibleSurfaces(surfaceEntries, TRUE, measurements, vw, vh,
                                          updateOrder)

\* the eligible surface with the highest recency counter, the last of equals
MostRecentEligible ==
  LET ord == OrderedByUpdate(Eligible(surfaceEntries, measurements, vw, vh), updateOrder)
  IN ord[Len(ord)]

\* C27: in fullscreen mode with a non-zero viewport, whenever at least one
\* surface is eligible the visible set is non-empty and contains the eligible
\* surface with the highest recency counter.
C27_MostRecentEligibleIsVisible ==
  (stage = "packed" /\ isFullscreen /\ vw # 0 /\ vh # 0
     /\ Eligible(surfaceEntries, measurements, vw, vh) # << >>) =>
    /\ layoutVisible # << >>
    /\ MostRecentEligible.name \in VisibleNames

(***************************************************************************)
(* Properties of the binding normalizer and of the Text renderer           *)
(***************************************************************************)
\* the binding is an object carrying a path and none of literal, literalString, url
PathOnly(value) ==
  /\ value.t = "object"
  /\ K_path \in DOMAIN value.o
  /\ DOMAIN value.o = {K_path}

\* the pointer of the binding is a string that the resolver does not find
Unresolved(value, data) ==
  /\ value.o[K_path].t = "string"
  /\ IsNullish(resolveJsonPointer(data, value.o[K_path]))

\* C8: a Text whose binding is a path that does not resolve is rendered with
\* empty content, neither the pointer text nor an error.
C8_UnresolvedPathRendersEmpty ==
  (stage = "rendered" /\ PathOnly(bindValue) /\ Unresolved(bindValue, bindData))
    => displayed = JStr(<< >>)

LiteralAndPath(value) ==
  /\ value.t = "object"
  /\ {K_literal, K_path} \subseteq DOMAIN value.o

\* C10: a binding with both a literal and a path normalizes to the literal for
\* every data model: the normalized value and the displayed content are the
\* literal whether or not the path resolves, the same for every data model.
C10_LiteralWinsOverPath ==
  (stage = "rendered" /\ LiteralAndPath(bindValue))
    => /\ normText.t = "object"
       /\ normText.o[K_literal] = bindValue.o[K_literal]
       /\ displayed = bindValue.o[K_literal]
       /\ \A d \in DataModels : resolveTextValue(bindValue, d) = normText

\* { literal: "hi", path: "/x" } where /x resolves to "yo": "hi" is displayed
C10_Witness ==
  /\ stage = "rendered"
  /\ bindValue = Binding([k \in {K_literal, K_path} |->
                           IF k = K_path THEN JStr(P_x) ELSE JStr(s_hi)])
  /\ bindData = DM_doc
  /\ resolveJsonPointer(bindData, JStr(P_x)) = JStr(s_yo)
  /\ displayed = JStr(s_hi)

(***************************************************************************)
(* Properties of the graph builder                                         *)
(***************************************************************************)
\* the ids of the nodes of a forest, every occurrence counted
RECURSIVE NodeIds(_)
NodeIds(nodes) ==
  IF nodes = << >> THEN << >>
  ELSE << Head(nodes).id >> \o NodeIds(Head(nodes).children) \o NodeIds(Tail(nodes))

NoRepeat(seq) == \A i, j \in DOMAIN seq : seq[i] = seq[j] => i = j

\* C2: every node id occurs at most once in the forest the builder returns, so
\* a child id referenced by two parents, or twice in one child list, appears
\* under exactly one owner.
C2_EveryIdAtMostOnceInForest ==
  stage = "built" => NoRepeat(NodeIds(forest))

\* the number of distinct ids of the flat list
DistinctIds == Cardinality({ components[i].id : i \in DOMAIN components })

\* C3 as stated: the builder terminates and the number of nested buildNode
\* calls never exceeds the number of distinct ids of the list.
C3_TerminatesDepthWithinIds ==
  /\ [](Len(stack) <= DistinctIds)
  /\ <>(stage = "built")

\* C3: the builder terminates for every flat list, and the number of nested
\* buildNode calls never exceeds the number of distinct ids plus one: the
\* calls that go on to build a node are at most one per distinct id, and the
\* call that finds the repeat or the missing record is one more.
C3_TerminatesDepthWithinIdsPlusOne ==
  /\ [](/\ Len(stack) <= DistinctIds + 1
        /\ \A i \in DOMAIN stack :
             ~ReturnsNull(stack[i].nodeId, stack[i].seen, idToDef) => i <= DistinctIds)
  /\ <>(stage = "built")

\* a: Card(b), b: Card(c), c: Card(b): the root a reaches the cycle b, c, and the
\* call that finds b again is the fourth of three ids
C3_Witness ==
  /\ components = << [id |-> "a", component |-> CardDef("b")],
                     [id |-> "b", component |-> CardDef("c")],
                     [id |-> "c", component |-> CardDef("b")] >>
  /\ stage = "building"
  /\ Len(stack) = 4
  /\ Top.nodeId = "b"
  /\ "b" \in Top.seen

\* the ids of the list in the order of their first record
RECURSIVE FirstOccurrences(_, _)
FirstOccurrences(comps, i) ==
  IF i > Len(comps) THEN << >>
  ELSE IF \E h \in 1..(i - 1) : comps[h].id = comps[i].id
       THEN FirstOccurrences(comps, i + 1)
       ELSE << comps[i].id >> \o FirstOccurrences(comps, i + 1)

\* the last record of the id carries a recognized definition
Recognized(comps, id) ==
  LET last == CHOOSE i \in DOMAIN comps :
                /\ comps[i].id = id
                /\ \A h \in DOMAIN comps : comps[h].id = id => h <= i
  IN comps[last].component.tag \in RecognizedTags

\* some record with another id names the id as a child
ReferencedByOther(comps, id) ==
  \E i \in DOMAIN comps :
    /\ comps[i].id # id
    /\ id \in ChildRefs(comps[i].component)

\* C4: the roots of the built forest are exactly the recognized components
\* whose id no other component of the flat list references as a child, in the
\* order of the flat list.
C4_RootsAreTheUnreferencedInListOrder ==
  stage = "built" =>
    [i \in DOMAIN forest |-> forest[i].id]
      = SelectSeq(FirstOccurrences(components, 1),
                  LAMBDA id : /\ Recognized(components, id)
                              /\ ~ReferencedByOther(components, id))

(***************************************************************************)
(* The pointer syntax of the data bindings, read from its definition: "/"  *)
(* is the whole document, a segment is a key of the object reached or a    *)
(* base-10 non-negative index within the sequence reached.                 *)
(***************************************************************************)
\* index is FALSE when a segment that is not an index met a sequence
NotFound == [found |-> FALSE, value |-> JNull, index |-> TRUE]
NotAnIndex == [found |-> FALSE, value |-> JNull, index |-> FALSE]
Found(v) == [found |-> TRUE, value |-> v, index |-> TRUE]

\* a non-empty run of decimal digits
IsIndex(token) == token # << >> /\ \A i \in 1..Len(token) : token[i] \in DigitChars

RECURSIVE Addressed(_, _, _)
Addressed(tokens, i, current) ==
  IF i > Len(tokens) THEN Found(current)
  ELSE LET token == unescapeJsonPointerToken(tokens[i])
       IN IF current.t = "array"
          THEN IF ~IsIndex(token) THEN NotAnIndex
               ELSE IF DigitsValue(token, 0) < Len(current.a)
               THEN Addressed(tokens, i + 1, current.a[DigitsValue(token, 0) + 1])
               ELSE NotFound
          ELSE IF current.t = "object"
          THEN IF token \in DOMAIN current.o
               THEN Addressed(tokens, i + 1, current.o[token])
               ELSE NotFound
          ELSE NotFound

\* the value the pointer addresses in the data, if any
AddressedBy(data, chars) ==
  IF data.t \notin {"object", "array"} THEN NotFound
  ELSE IF chars = << "/" >> THEN Found(data)
  ELSE IF chars = << >> \/ chars[1] # "/" THEN NotFound
  ELSE Addressed(SplitSlash(Tail(chars)), 1, data)

\* C11: round trip: a Text bound to a pointer that addresses a value present in
\* the data model is built with the literal display string equal to that
\* value: the string itself, or the string coercion of a non-string value.
C11_BoundTextReproducesAddressedValue ==
  (stage \in {"normalized", "rendered"} /\ PathOnly(bindValue)
     /\ bindValue.o[K_path].t = "string"
     /\ AddressedBy(bindData, bindValue.o[K_path].s).found)
    => normText = JObj([k \in {K_literal} |->
                     JStr(StringOf(AddressedBy(bindData, bindValue.o[K_path].s).value))])

(***************************************************************************)
(* Properties of the pointer resolver                                      *)
(***************************************************************************)
\* what the pointer of the state addresses in the data of the state
Target == AddressedBy(pointerData, pointerText)

\* C12: the resolver never raises and fails closed: a pointer with an index
\* out of range, a missing key or a segment applied to a value that is no
\* container yields not-found, and a pointer whose segments all match yields
\* the addressed value.
C12_ResolverFailsClosed ==
  (stage = "resolved" /\ Target.index)
    => /\ pointerResult # Thrown
       /\ IF Target.found THEN pointerResult = Target.value
          ELSE IsNullish(pointerResult)

\* C13: on an ordered sequence a segment selects an element only if it is a
\* base-10 non-negative integer index within range; an empty, negative,
\* fractional, exponent, hexadecimal, space-padded or non-numeric segment
\* yields not-found.
C13_OnlyDecimalIndexSelects ==
  (stage = "resolved" /\ ~Target.index) => IsNullish(pointerResult)

(***************************************************************************)
(* Properties of the message stream                                        *)
(***************************************************************************)
\* the stream without its beginRendering messages
Effective == SelectSeq(messageStream, LAMBDA m : m.type # "beginRendering")

\* one surfaceUpdate and one dataModelUpdate, in either order
OneOfEach ==
  /\ Len(Effective) = 2
  /\ { Effective[1].type, Effective[2].type } = { "surfaceUpdate", "dataModelUpdate" }

TheSurfaceUpdate == IF Effective[1].type = "surfaceUpdate" THEN Effective[1] ELSE Effective[2]
TheDataModelUpdate == IF Effective[1].type = "dataModelUpdate" THEN Effective[1] ELSE Effective[2]

\* C14: for a stream holding one surfaceUpdate and one dataModelUpdate, the
\* surface is built with its path bindings resolved against that data model,
\* whether the dataModelUpdate comes before or after the surfaceUpdate.
C14_BothMessageOrdersGiveTheSameSurface ==
  (stage = "surfaces" /\ OneOfEach)
    => /\ ~debugSurfaces.isNull
       /\ debugSurfaces.surfaces
            = << [name |-> TheSurfaceUpdate.surface,
                  forest |-> BuildForest(TheSurfaceUpdate.components,
                                         TheDataModelUpdate.data)] >>
       /\ debugSurfaces
            = BuildDebugSurfaces(<< Effective[2], Effective[1] >>)

(***************************************************************************)
(* Properties of the graph builder on lists with repeated ids              *)
(***************************************************************************)
\* the list without the records that a later record of the same id replaces
RECURSIVE LastRecords(_, _)
LastRecords(comps, i) ==
  IF i > Len(comps) THEN << >>
  ELSE IF \E h \in (i + 1)..Len(comps) : comps[h].id = comps[i].id
       THEN LastRecords(comps, i + 1)
       ELSE << comps[i] >> \o LastRecords(comps, i + 1)

HasRepeatedId == \E i, j \in DOMAIN components : i # j /\ components[i].id = components[j].id

NodesOf(nodes) == { nodes[i] : i \in DOMAIN nodes }

\* C15: when records share an id the node is built from the last of them and
\* the earlier ones are discarded: the forest has the roots and the nodes that
\* the list without the earlier records gives.
C15_EarlierDuplicatesAreDiscarded ==
  (stage = "built" /\ HasRepeatedId)
    => NodesOf(forest) = NodesOf(BuildForest(LastRecords(components, 1), BuildDataModel))

(***************************************************************************)
(* Properties of the graph builder on records of any shape                 *)
(***************************************************************************)
\* C16: the builder is total: for every flat list, whatever the shape of its
\* records, it returns a forest and never throws.
C16_BuilderNeverThrows == stage # "threw"

\* a definition the builder is to skip: no object, no recognized key, or a
\* Text without its text field
Malformed(compDef) ==
  IF compDef.tag \notin RecognizedTags THEN TRUE
  ELSE compDef.tag = "Text" /\ compDef.text = JUndefined

\* C17: a record without an id, with an unrecognized key or without a required
\* field gives no node anywhere in the forest, and the other records are still
\* built: every well-formed record that no record references is a root.
C17_MalformedRecordsGiveNoNode ==
  stage = "built" =>
    /\ \A i \in DOMAIN NodeIds(forest) :
         /\ NodeIds(forest)[i] # ""
         /\ ~Malformed(idToDef[NodeIds(forest)[i]])
    /\ \A i \in DOMAIN idToDefKeys :
         (~Malformed(idToDef[idToDefKeys[i]]) /\ idToDefKeys[i] \notin referenced)
           => \E r \in DOMAIN forest : forest[r].id = idToDefKeys[i]

(***************************************************************************)
(* Properties of the message stream: structural updates                    *)
(***************************************************************************)
\* the positions of the surfaceUpdates for a surface
UpdatesOf(name) ==
  { i \in DOMAIN messageStream :
      messageStream[i].type = "surfaceUpdate" /\ messageStream[i].surface = name }

LastUpdateOf(name) == CHOOSE i \in UpdatesOf(name) : \A j \in UpdatesOf(name) : j <= i

\* the data of the last dataModelUpdate before a position, null when none
DataModelAt(i) ==
  LET before == { j \in 1..(i - 1) : messageStream[j].type = "dataModelUpdate" }
  IN IF before = {} THEN JNull
     ELSE messageStream[CHOOSE j \in before : \A h \in before : h <= j].data

RecordIds(comps) == { comps[i].id : i \in DOMAIN comps }

ForestsOf(name) ==
  { debugSurfaces.surfaces[i].forest :
      i \in { j \in DOMAIN debugSurfaces.surfaces : debugSurfaces.surfaces[j].name = name } }

\* C18: a surface that received surfaceUpdates has one forest, built from the
\* component list of the last of them alone: every node of it is a record of
\* that list, and an empty list gives the empty forest.
C18_StructuralUpdatesReplaceWholesale ==
  stage = "surfaces" =>
    \A name \in SurfaceNames :
      UpdatesOf(name) # {} =>
        LET last == messageStream[LastUpdateOf(name)]
        IN /\ ~debugSurfaces.isNull
           /\ ForestsOf(name) = { BuildForest(last.components, DataModelAt(LastUpdateOf(name))) }
           /\ \A f \in ForestsOf(name) :
                /\ \A i \in DOMAIN NodeIds(f) : NodeIds(f)[i] \in RecordIds(last.components)
                /\ last.components = << >> => f = << >>

\* a surface received a list with nodes and then a different list, here the
\* empty one, and a further surface received a list as well
C18_Witness ==
  /\ stage = "surfaces"
  /\ \E name \in SurfaceNames :
       /\ Cardinality(UpdatesOf(name)) >= 2
       /\ messageStream[LastUpdateOf(name)].components = << >>
       /\ \E i \in UpdatesOf(name) : messageStream[i].components # << >>
       /\ ForestsOf(name) = { << >> }

(***************************************************************************)
(* Properties of the component renderers                                   *)
(***************************************************************************)
\* C19: rendering is total: a node of one of the seven kinds whose props have
\* their declared types is drawn as an element without raising, and a node of
\* any other kind is drawn as the "Unsupported component" fallback.
C19_RenderingIsTotal ==
  stage = "drawn" =>
    IF drawNode.type \in RecognizedTags
    THEN drawable.outcome = "element"
    ELSE drawable.outcome = "fallback" /\ drawable.text = t_Unsupported

(***************************************************************************)
(* Properties of the session page                                          *)
(***************************************************************************)
\* C20: a failed poll (the fetch rejects, the status is not ok, or the body is
\* no JSON) leaves uiState and events as they were, and while a surface exists
\* the same surfaces stay displayed and the error is not shown in their place.
C20_FailedPollKeepsLastKnownSurfaces ==
  [][(settled.kind \in FailureKinds /\ settled' = NoResponse)
       => /\ uiState' = uiState
          /\ events' = events
          /\ HasSurfaces => (HasSurfaces' /\ SurfacesToRender' = SurfacesToRender
                             /\ ~ShowError')]_vars

\* a failure was handled and the surface received from the server is displayed
C20_Witness ==
  /\ stage = "session"
  /\ error # ""
  /\ HasSurfaces
  /\ ~ShowError
  /\ settled = NoResponse
  /\ events # << >>

(***************************************************************************)
(* Properties of the session page under polling and route changes          *)
(***************************************************************************)
\* C28: while the page stays mounted on one session, under any interleaving of
\* the polls and their responses, the highest event seq of the state held in
\* events never decreases.
C28_DisplayedSeqNeverRegresses ==
  [][(isMounted' /\ effect' = 1) => MaxSeq(events') >= MaxSeq(events)]_vars

\* the then callback of a fetch of the effect's current run, on a mounted page
HandledForCurrentSession(i) ==
  /\ i \in 1..Len(fetches)
  /\ MountedIn(fetches[i].effect)
  /\ ResponseHandled(i)

\* C29: after the route parameter changed from A to B, a successful poll for B
\* leaves the page showing B's state, whatever seq was last recorded for A.
C29_SuccessfulPollShowsRequestedSession ==
  [][\A i \in 1..MaxInFlight :
       HandledForCurrentSession(i) =>
         uiState' = SessionUi(sessionId, fetches[i].seq)]_vars

(***************************************************************************)
(* Properties of the speech hook                                           *)
(***************************************************************************)
\* C30: once the recognition started by the last start() has ended, through
\* stop() or by itself, the status is not 'listening'.
C30_StatusLeavesListeningOnEnd ==
  (stage = "speech" /\ recognitionRef # 0
     /\ recognitions[recognitionRef].phase = "ended") => status # "listening"

(***************************************************************************)
(* Properties of the graph builder: the children of a node                 *)
(***************************************************************************)
\* the child ids a definition declares: explicitList, or the child of a Card
Declared(id) ==
  IF idToDef[id].tag \in ContainerTags THEN idToDef[id].children ELSE << >>

\* the id is on the chain, or has no record with a recognized definition
Omitted(id, chain) ==
  IF id \in chain THEN TRUE
  ELSE IF id \notin DOMAIN idToDef THEN TRUE
  ELSE idToDef[id].tag \notin RecognizedTags

ChildIds(node) == [i \in DOMAIN node.children |-> node.children[i].id]

\* under the node, reached through the chain, a declared child is missing
\* exactly when it is omitted, and every other one has its own node
RECURSIVE OmitsExactly(_, _)
OmitsExactly(node, chain) ==
  LET inner == chain \cup { node.id }
      declared == Declared(node.id)
      kept == { i \in DOMAIN declared : ~Omitted(declared[i], inner) }
  IN /\ Len(node.children) = Cardinality(kept)
     /\ \A i \in kept : \E c \in DOMAIN node.children : node.children[c].id = declared[i]
     /\ \A c \in DOMAIN node.children :
          /\ \E i \in kept : declared[i] = node.children[c].id
          /\ OmitsExactly(node.children[c], inner)

\* C22: a referenced child id yields no node exactly when it is on the current
\* ancestor chain, the node itself included, or has no record with a
\* recognized definition; otherwise it is materialized, also when the same id
\* was materialized under a sibling or another parent.
C22_ChildOmittedIffOnChainOrUnrecognized ==
  stage = "built" => \A r \in DOMAIN forest : OmitsExactly(forest[r], {})

\* a node names the same child twice and the child names the node: the child
\* is materialized twice, each time without the node below it
C22_Witness ==
  /\ stage = "built"
  /\ Len(forest) = 1
  /\ Len(forest[1].children) = 1
  /\ LET node == forest[1].children[1]
     IN /\ Len(node.children) = 2
        /\ node.children[1].id = node.children[2].id
        /\ Declared(node.children[1].id) = << node.id >>
        /\ node.children[1].children = << >>

\* the children of every node under the chain are the declared ids that are
\* not omitted, in the declared order
RECURSIVE KeepsDeclaredOrder(_, _)
KeepsDeclaredOrder(node, chain) ==
  LET inner == chain \cup { node.id }
  IN /\ ChildIds(node) = SelectSeq(Declared(node.id), LAMBDA id : ~Omitted(id, inner))
     /\ node.type = "Card" => Len(node.children) <= 1
     /\ node.type = "Card" /\ node.children # << >>
          => node.children[1].id = idToDef[node.id].children[1]
     /\ \A c \in DOMAIN node.children : KeepsDeclaredOrder(node.children[c], inner)

PresentationKeys(tag) ==
  CASE tag \in {"Column"} -> {"gap", "alignment"}
    [] tag = "Row" -> {"gap", "alignment", "distribution"}
    [] tag = "Text" -> {"usageHint"}
    [] tag = "Image" -> {"usageHint", "fit"}
    [] OTHER -> {}

\* node.props.<key>
NodeProp(node, key) ==
  IF key \in DOMAIN node.props THEN node.props[key] ELSE JUndefined

RECURSIVE CarriesPresentation(_)
CarriesPresentation(node) ==
  /\ \A k \in PresentationKeys(node.type) : NodeProp(node, k) = Prop(idToDef[node.id], k)
  /\ node.type = "Text"
       => NodeProp(node, "text") = resolveTextValue(idToDef[node.id].text, BuildDataModel)
  /\ node.type = "Image"
       => /\ NodeProp(node, "source")
               = resolveSourceValue(SourceOrUrl(idToDef[node.id]), BuildDataModel)
          /\ NodeProp(node, "altText")
               = resolveTextValue(Prop(idToDef[node.id], "altText"), BuildDataModel)
  /\ \A c \in DOMAIN node.children : CarriesPresentation(node.children[c])

\* C24: a node carries the presentation properties declared on its component
\* unchanged (gap and alignment of a Column or Row, distribution of a Row,
\* usageHint of a Text, usageHint and fit of an Image), and its text, source
\* and alt text are the normalized values.
C24_PresentationPropertiesCarried ==
  stage = "built" => \A r \in DOMAIN forest : CarriesPresentation(forest[r])

====
